---------------------------- MODULE Spec2Model ----------------------------
(***************************************************************************)
(* Model of the oak-portfolio tree generator: the space colonization       *)
(* skeleton (SpaceColonization), its query layer (TreeSkeleton), the       *)
(* rotation-minimizing frames (computeParallelTransportFrames) and the     *)
(* structural part of the trunk mesh builder (TrunkMesh).                  *)
(*                                                                         *)
(* Numbers.  The program computes in IEEE doubles.  The model computes in  *)
(* fixed point: a length l is the integer l * FP, a unit vector has        *)
(* components in -FP..FP.  Distances are compared through their squares,   *)
(* which is exact on integers.  Arrays keep the program's 0-based indices: *)
(* a JS array is a function on 0..n-1.                                     *)
(***************************************************************************)
EXTENDS Integers, Sequences, FiniteSets, TLC

\* Fixed-point scale: the integer that stands for the length 1.0.
FP == 100

\* Bounds of the explored inputs.
MaxSeed == 2
MaxAttractors == 3
MaxIter == 3
MaxGenerations == 2
MaxBuilds == 2
MaxPoints == 4
FrameEps == 8

\* ------------------------------------------------------------------------
\* Integer helpers
\* ------------------------------------------------------------------------

Abs(a) == IF a < 0 THEN -a ELSE a

Min(a, b) == IF a < b THEN a ELSE b

Max(a, b) == IF a > b THEN a ELSE b

\* a / b rounded down, for any sign of b (b # 0).
FDiv(a, b) == IF b > 0 THEN a \div b ELSE (-a) \div (-b)

\* Math.ceil(a / b) for b > 0.
CeilDiv(a, b) == -((-a) \div b)

RECURSIVE SqrtSearch(_, _, _)
SqrtSearch(n, lo, hi) ==
  IF lo >= hi THEN lo
  ELSE LET mid == (lo + hi + 1) \div 2
       IN IF mid * mid <= n THEN SqrtSearch(n, mid, hi)
                            ELSE SqrtSearch(n, lo, mid - 1)

\* floor(sqrt(n)), n >= 0 (46340^2 is the largest square of a 32-bit int).
ISqrt(n) == SqrtSearch(n, 0, Min(n, 46340))

RECURSIVE IPow(_, _)
IPow(b, e) == IF e <= 0 THEN 1 ELSE b * IPow(b, e - 1)

\* ------------------------------------------------------------------------
\* 32-bit words, as <<high 16 bits, low 16 bits>>, and mulberry32
\* ------------------------------------------------------------------------

W16 == 65536

\* a ^ b for two n-bit numbers, n a power of 2: bit by bit, the high half
\* and the low half of the bits apart.
RECURSIVE Xor16(_, _, _)
Xor16(a, b, n) ==
  IF n = 1 THEN (a + b) % 2
  ELSE Xor16(a \div 2^(n \div 2), b \div 2^(n \div 2), n \div 2) * 2^(n \div 2)
       + Xor16(a % 2^(n \div 2), b % 2^(n \div 2), n \div 2)

\* a | b for two n-bit numbers, n a power of 2.
RECURSIVE Or16(_, _, _)
Or16(a, b, n) ==
  IF n = 1 THEN (IF a + b > 0 THEN 1 ELSE 0)
  ELSE Or16(a \div 2^(n \div 2), b \div 2^(n \div 2), n \div 2) * 2^(n \div 2)
       + Or16(a % 2^(n \div 2), b % 2^(n \div 2), n \div 2)

Xor32(a, b) ==
  IF a = b THEN <<0, 0>>
  ELSE <<Xor16(a[1], b[1], 16), Xor16(a[2], b[2], 16)>>

\* a | k for a constant k < 2^16.
OrLow(a, k) == <<a[1], Or16(a[2], k, 16)>>

\* (a + b) | 0
Add32(a, b) ==
  LET lo == a[2] + b[2]
  IN <<(a[1] + b[1] + lo \div W16) % W16, lo % W16>>

\* a >>> k, 0 < k < 16
Shr32(a, k) ==
  LET p == 2^k
  IN <<a[1] \div p, (a[2] \div p) + (a[1] % p) * (W16 \div p)>>

\* The 32-bit product of two 16-bit numbers, by bytes (no intermediate
\* exceeds 2^31).
Mul16(a, b) ==
  LET a0 == a % 256  a1 == a \div 256
      b0 == b % 256  b1 == b \div 256
      p0 == a0 * b0
      p1 == a1 * b0 + a0 * b1
      p2 == a1 * b1
      lo == p0 + (p1 % 256) * 256
  IN <<(p2 + (p1 \div 256) + (lo \div W16)) % W16, lo % W16>>

\* The low 32 bits of a product from the three partial products that reach
\* them: ll = lo * lo, hl = hi * lo, lh = lo * hi.
ImulWord(ll, hl, lh) == <<(ll[1] + hl[2] + lh[2]) % W16, ll[2]>>

\* Math.imul(a, b): the low 32 bits of the product.
Imul(a, b) ==
  ImulWord(Mul16(a[2], b[2]), Mul16(a[1], b[2]), Mul16(a[2], b[1]))

\* mulberry32(seed): the generator's initial state, seed | 0 (seed >= 0 here).
mulberry32(seed) == <<(seed \div W16) % W16, seed % W16>>

\* One call of the generator, statement by statement.
\* s = (s + 0x6d2b79f5) | 0
RngAdvance(s) == Add32(s, <<27947, 31221>>)

\* t = Math.imul(s ^ (s >>> 15), 1 | s)
RngMix1(s) == Imul(Xor32(s, Shr32(s, 15)), OrLow(s, 1))

\* t = (t + Math.imul(t ^ (t >>> 7), 61 | t)) ^ t
RngMix2(t) == Xor32(Add32(t, Imul(Xor32(t, Shr32(t, 7)), OrLow(t, 61))), t)

\* ((t ^ (t >>> 14)) >>> 0) / 4294967296, kept as its 16 leading bits, in
\* 0..65535.
RngValue(t) == Xor32(t, Shr32(t, 14))[1]

\* The generator's next state and the value returned, from the advanced
\* state s.
RngResult(s) == [state |-> s, value |-> RngValue(RngMix2(RngMix1(s)))]

RngStep(s) == RngResult(RngAdvance(s))

\* ------------------------------------------------------------------------
\* THREE.Vector3 in fixed point
\* ------------------------------------------------------------------------

\* A vector; nan tells that some component is NaN (the components kept are
\* then meaningless).
Vec(x, y, z) == [x |-> x, y |-> y, z |-> z, nan |-> FALSE]

VZero == Vec(0, 0, 0)

\* A vector with a NaN component.
VNaN == [x |-> 0, y |-> 0, z |-> 0, nan |-> TRUE]

VAdd(a, b) == IF a.nan \/ b.nan THEN VNaN ELSE Vec(a.x + b.x, a.y + b.y, a.z + b.z)

VSub(a, b) == IF a.nan \/ b.nan THEN VNaN ELSE Vec(a.x - b.x, a.y - b.y, a.z - b.z)

VDot(a, b) == a.x * b.x + a.y * b.y + a.z * b.z

VLenSq(a) == VDot(a, a)

\* a.distanceTo(b), squared.
DistSq(a, b) == VLenSq(VSub(a, b))

\* dist < limit, for the distance whose square is dsq.
DistLess(dsq, limit) == limit > 0 /\ dsq < limit * limit

\* v.divideScalar(len), the result in FP units.
VDivide(v, len) ==
  IF len = 0 THEN v
  ELSE Vec(FDiv(v.x * FP, len), FDiv(v.y * FP, len), FDiv(v.z * FP, len))

\* v.normalize(): v / (|v| || 1).  The result is a unit vector in FP units;
\* the zero vector stays the zero vector and NaN stays NaN.
Normalize(v) == IF v.nan THEN VNaN ELSE VDivide(v, ISqrt(VLenSq(v)))

\* v.multiplyScalar(s), v a unit vector in FP units, s a length.
VScale(v, s) ==
  IF v.nan THEN VNaN
  ELSE Vec(FDiv(v.x * s, FP), FDiv(v.y * s, FP), FDiv(v.z * s, FP))

\* ------------------------------------------------------------------------
\* Arrays with the program's 0-based indices
\* ------------------------------------------------------------------------

ALen(a) == Cardinality(DOMAIN a)

AEmpty == [i \in {} |-> 0]

\* a.push(x)
APush(a, x) == [i \in 0..ALen(a) |-> IF i < ALen(a) THEN a[i] ELSE x]

\* ------------------------------------------------------------------------
\* State
\* ------------------------------------------------------------------------

VARIABLES
  config,       \* the configuration record handed to every constructor
  pc,           \* where the running generate() stands; "idle" outside it
  rng,          \* SpaceColonization.rng: the state of its mulberry32 stream
  attractors,   \* SpaceColonization.attractors
  nodes,        \* SpaceColonization.nodes
  iter,         \* _grow's loop counter
  nodeInfluences, \* _grow's nodeInfluences, as the last iteration left it
  skNodes,      \* TreeSkeleton.nodes
  children,     \* TreeSkeleton._children
  segments,     \* TreeSkeleton._segments: [cached |-> FALSE] stands for null
  segResult,    \* what the last getBranchSegments() call returned
  generations,  \* completed TreeSkeleton.generate() calls
  firstGraph,   \* the node graph the first generate() returned
  builder,      \* whether a TrunkMesh has been constructed
  branchRng,    \* TrunkMesh.branchRng: the state of its mulberry32 stream
  maxDepth,     \* TrunkMesh.maxDepth
  burls,        \* TrunkMesh.burls
  junctions,    \* TrunkMesh.junctions
  builds,       \* build() calls made on the TrunkMesh
  geometry,     \* what the last build() returned
  firstMesh,    \* what the first build() of a new TrunkMesh returned
  points,       \* computeParallelTransportFrames: its argument
  frames,       \* computeParallelTransportFrames: frames
  cur,          \* computeParallelTransportFrames: T, N and B
  fi,           \* computeParallelTransportFrames: the loop counter i
  fpc,          \* where the call of computeParallelTransportFrames stands
  cs,           \* a call of getCrossSectionRadius: its arguments, r, the
                \* harmonic the loop is at, and where the call stands
  tiers,        \* two calls of _getTier: their radii and what they returned
  collar,       \* the collar block of _buildSegmentGeometry at one vertex:
                \* vertexPos, the junctions read and what each one added
  hash,         \* main.js: whether location.hash names a fruit
  startSeq,     \* main.js: where startSequence() stands
  listening,    \* FruitRaycaster: whether its window listeners are registered
  clicks,       \* fruit clicks the user has made
  flyingTo,     \* the onClick calls awaiting flyTo, oldest first: their fruit
  flyingBack,   \* the onClose calls awaiting flyBack
  isOpen,       \* PortfolioOverlay.isOpen
  shown,        \* the fruit whose item the overlay shows, 0 for none
  onClose       \* whether PortfolioOverlay.onClose is set

vars == <<config, pc, rng, attractors, nodes, iter, nodeInfluences, skNodes,
          children,
          segments, segResult, generations, firstGraph, builder, branchRng,
          maxDepth, burls, junctions, builds, geometry, firstMesh,
          points, frames, cur, fi, fpc, cs, collar, tiers,
          hash, startSeq, listening, clicks, flyingTo, flyingBack, isOpen, shown,
          onClose>>

uiVars == <<hash, startSeq, listening, clicks, flyingTo, flyingBack, isOpen, shown,
            onClose>>

scVars == <<rng, attractors, nodes, iter>>

skVars == <<skNodes, children, segments, segResult>>

tmVars == <<builder, branchRng, maxDepth, burls, junctions, builds, geometry,
            firstMesh>>

ptVars == <<points, frames, cur, fi, fpc>>

treeVars == <<config, pc, scVars, nodeInfluences, skVars, generations,
              firstGraph, tmVars>>

\* ------------------------------------------------------------------------
\* Configurations explored (lengths in FP units)
\* ------------------------------------------------------------------------

\* TREE_CONFIG scaled down to a tree of a few nodes: every field but seed and
\* attractorCount.
BaseShape ==
  [ crownRadiusX |-> 100, crownRadiusY |-> 80, crownRadiusZ |-> 100,
    crownCenterY |-> 150,
    influenceRadius |-> 120, killDistance |-> 40, segmentLength |-> 40,
    maxIterations |-> MaxIter, trunkHeight |-> 100,
    pipeExponent |-> 2, trunkBaseRadius |-> 70,
    burlCount |-> 2, burlRadiusMin |-> 15, burlRadiusMax |-> 35,
    burlHeightMin |-> 4, burlHeightMax |-> 10, burlMinSpacing |-> 60,
    deadStubCount |-> 2, deadStubLength |-> 30,
    trunkRadialSegments |-> 4, primaryRadialSegments |-> 3,
    secondaryRadialSegments |-> 3, tertiaryRadialSegments |-> 2,
    trunkAxialSpacing |-> 40, branchAxialSpacing |-> 15 ]

\* The shapes explored.  Besides the base shape: a crown that reaches down to
\* the ground, a trunk that is a whole number of segments, a tall trunk, a
\* thin tree, a crown with an attractor halfway between two trunk nodes, one
\* within killDistance and one out of reach, and
\* the degenerate ones (a negative and a zero crown radius, a negative
\* segment length, no trunk, a trunk of negative height, no radial segments).
Shapes == {
  BaseShape,
  [BaseShape EXCEPT !.crownCenterY = 40, !.pipeExponent = 1],
  [BaseShape EXCEPT !.segmentLength = 50, !.pipeExponent = 3,
                    !.burlMinSpacing = 1000],
  [BaseShape EXCEPT !.trunkHeight = 450, !.segmentLength = 150,
                    !.burlMinSpacing = 210],
  [BaseShape EXCEPT !.trunkBaseRadius = 8, !.pipeExponent = 1,
                    !.crownCenterY = 60],
  [BaseShape EXCEPT !.segmentLength = 50, !.crownCenterY = 81,
                    !.influenceRadius = 80],
  [BaseShape EXCEPT !.crownRadiusX = -100],
  [BaseShape EXCEPT !.crownRadiusX = 0],
  [BaseShape EXCEPT !.segmentLength = -40],
  [BaseShape EXCEPT !.crownCenterY = 40, !.trunkHeight = 0],
  [BaseShape EXCEPT !.trunkHeight = -100],
  [BaseShape EXCEPT !.trunkRadialSegments = 0, !.primaryRadialSegments = 0,
                    !.secondaryRadialSegments = 0, !.tertiaryRadialSegments = 0] }

WithSeed(sh, s, a) ==
  [f \in DOMAIN sh \cup {"seed", "attractorCount"} |->
     IF f = "seed" THEN s ELSE IF f = "attractorCount" THEN a ELSE sh[f]]

Configs ==
  { WithSeed(sh, s, a) : s \in 0..MaxSeed, a \in 0..MaxAttractors, sh \in Shapes }

NullSegments == [cached |-> FALSE, value |-> << >>]

\* null, where a geometry is expected.
NullGeometry == [merged |-> FALSE, parts |-> << >>]

NoMesh ==
  [set |-> FALSE, value |-> NullGeometry, burls |-> << >>, junctions |-> << >>,
   generation |-> 0]

\* No call of getCrossSectionRadius.
\* The interaction objects as main.js constructs them, before startSequence()
\* has enabled the raycaster; h tells whether the URL's hash names a fruit.
Constructed(h) ==
  /\ hash = h
  /\ startSeq = "loading"
  /\ listening = FALSE
  /\ clicks = 0
  /\ flyingTo = << >>
  /\ flyingBack = 0
  /\ isOpen = FALSE
  /\ shown = 0
  /\ onClose = FALSE

\* No call of _getTier is looked at.
NoTier == [pc |-> "idle", r1 |-> 0, r2 |-> 0, t1 |-> << >>, t2 |-> << >>]

\* No vertex has gone through the collar block.
NoCollar == [called |-> FALSE, vertexPos |-> VZero, junctions |-> << >>,
             terms |-> << >>, collarDisp |-> "zero", moved |-> FALSE]

NoCall == [pc |-> "idle", theta |-> 0, h |-> 0, baseRadius |-> 0, r |-> 0, k |-> 0]

\* T, N and B before the first frame is computed.
NoFrame == [T |-> VZero, N |-> VZero, B |-> VZero]

Init ==
  /\ config \in Configs
  /\ pc = "idle"
  /\ rng = mulberry32(0)
  /\ attractors = << >>
  /\ nodes = AEmpty
  /\ iter = 0
  /\ nodeInfluences = << >>
  /\ skNodes = AEmpty
  /\ children = AEmpty
  /\ segments = NullSegments
  /\ segResult = << >>
  /\ generations = 0
  /\ firstGraph = AEmpty
  /\ builder = FALSE
  /\ branchRng = mulberry32(0)
  /\ maxDepth = 0
  /\ burls = << >>
  /\ junctions = << >>
  /\ builds = 0
  /\ geometry = NullGeometry
  /\ firstMesh = NoMesh
  /\ points = << >>
  /\ frames = << >>
  /\ cur = NoFrame
  /\ fi = 0
  /\ fpc = "idle"
  /\ cs = NoCall
  /\ collar = NoCollar
  /\ Constructed(FALSE)
  /\ tiers = NoTier

\* ------------------------------------------------------------------------
\* SpaceColonization
\* ------------------------------------------------------------------------

BeginGenerateKeepRng ==
  /\ pc = "idle"
  /\ generations < MaxGenerations
  /\ rng' = rng
  /\ attractors' = << >>
  /\ nodes' = AEmpty
  /\ iter' = 0
  /\ pc' = "attractors"
  /\ builder' = FALSE
  /\ branchRng' = mulberry32(0)
  /\ maxDepth' = 0
  /\ burls' = << >>
  /\ junctions' = << >>
  /\ builds' = 0
  /\ geometry' = NullGeometry
  /\ nodeInfluences' = << >>
  /\ UNCHANGED <<cs, collar, tiers, uiVars, ptVars, config, skVars, generations, firstGraph, firstMesh>>

\* new SpaceColonization(config), then generate() starts.  A TrunkMesh built
\* on the graph that is about to be replaced is dropped, and with it what it
\* built.
BeginGenerate ==
  /\ pc = "idle"
  /\ generations < MaxGenerations
  /\ rng' = mulberry32(config.seed)
  /\ attractors' = << >>
  /\ nodes' = AEmpty
  /\ iter' = 0
  /\ pc' = "attractors"
  /\ builder' = FALSE
  /\ branchRng' = mulberry32(0)
  /\ maxDepth' = 0
  /\ burls' = << >>
  /\ junctions' = << >>
  /\ builds' = 0
  /\ geometry' = NullGeometry
  /\ nodeInfluences' = << >>
  /\ UNCHANGED <<cs, collar, tiers, uiVars, ptVars, config, skVars, generations, firstGraph, firstMesh>>

\* (rng() * 2 - 1) * radius, for the value u / 2^16 drawn.
Spread(u, radius) == FDiv((2 * u - W16) * radius, W16)

\* x / radius as a fixed-point fraction (radius # 0).
Ratio(x, radius) == FDiv(x * FP, radius)

\* The ellipsoid test of one sample.  A zero radius makes the quotient 0/0,
\* NaN, and NaN <= 1 is false.
InsideEllipsoid(p, c) ==
  /\ c.crownRadiusX # 0 /\ c.crownRadiusY # 0 /\ c.crownRadiusZ # 0
  /\ LET nx == Ratio(p.x, c.crownRadiusX)
         ny == Ratio(p.y - c.crownCenterY, c.crownRadiusY)
         nz == Ratio(p.z, c.crownRadiusZ)
     IN nx * nx + ny * ny + nz * nz <= FP * FP

\* Whether the ellipsoid test can never succeed (a NaN quotient).
NeverInside(c) ==
  c.crownRadiusX = 0 \/ c.crownRadiusY = 0 \/ c.crownRadiusZ = 0

\* One pass of the rejection-sampling loop of _generateAttractors.  When no
\* sample can ever pass the test the loop runs forever: pc "diverged" stands
\* for that run, which draws from rng without end and returns nothing.
ScatterAttempt ==
  /\ pc = "attractors"
  /\ Len(attractors) < config.attractorCount
  /\ LET r1 == RngStep(rng)
         r2 == RngStep(r1.state)
         r3 == RngStep(r2.state)
         p  == Vec(Spread(r1.value, config.crownRadiusX),
                   Spread(r2.value, config.crownRadiusY) + config.crownCenterY,
                   Spread(r3.value, config.crownRadiusZ))
     IN /\ rng' = r3.state
        /\ attractors' = IF InsideEllipsoid(p, config)
                         THEN Append(attractors, p) ELSE attractors
  /\ pc' = IF NeverInside(config) THEN "diverged" ELSE pc
  /\ UNCHANGED <<nodeInfluences, cs, collar, tiers, uiVars, ptVars, config, nodes, iter, skVars, generations, firstGraph, tmVars>>

\* The loop of _generateAttractors is left.
ScatterDone ==
  /\ pc = "attractors"
  /\ Len(attractors) >= config.attractorCount
  /\ pc' = "seedTrunk"
  /\ UNCHANGED <<nodeInfluences, cs, collar, tiers, uiVars, ptVars, config, scVars, skVars, generations, firstGraph, tmVars>>

TrunkSegmentsFloor(c) == FDiv(c.trunkHeight, c.segmentLength)

\* Math.ceil(trunkHeight / segmentLength), segmentLength # 0.  For a negative
\* segmentLength the quotient is negative and so is its ceiling.
TrunkSegments(c) ==
  IF c.segmentLength > 0 THEN CeilDiv(c.trunkHeight, c.segmentLength)
  ELSE -((c.trunkHeight) \div (-c.segmentLength))

\* The trunk node with the second loop of _seedTrunk running to i <= trunkSegments.
TrunkNodeCountedTop(i, trunkSegments, c) ==
  [ position |-> IF trunkSegments = 0 THEN VNaN
                 ELSE Vec(0, FDiv(i * c.trunkHeight, trunkSegments), 0),
    parentIndex |-> IF i = 0 THEN -1 ELSE i - 1,
    depth |-> i,
    thickness |-> 0,
    childCount |-> 1 ]

\* The node pushed for i in the first loop of _seedTrunk: t = i / trunkSegments,
\* which is 0 / 0, NaN, when trunkSegments is 0.
TrunkNode(i, trunkSegments, c) ==
  [ position |-> IF trunkSegments = 0 THEN VNaN
                 ELSE Vec(0, FDiv(i * c.trunkHeight, trunkSegments), 0),
    parentIndex |-> IF i = 0 THEN -1 ELSE i - 1,
    depth |-> i,
    thickness |-> 0,
    childCount |-> IF i < trunkSegments THEN 1 ELSE 0 ]

\* _seedTrunk: both loops.  With segmentLength = 0 and trunkHeight > 0 the
\* quotient is Infinity and the first loop never ends.  With a negative
\* quotient (or 0 / 0, NaN) the loop body never runs and nodes stays empty.
SeedTrunk ==
  /\ pc = "seedTrunk"
  /\ IF config.segmentLength = 0
     THEN /\ pc' = IF config.trunkHeight > 0 THEN "diverged" ELSE "grow"
          /\ UNCHANGED nodes
     ELSE LET trunkSegments == TrunkSegments(config)
          IN /\ nodes' = [i \in 0..trunkSegments |->
                            TrunkNode(i, trunkSegments, config)]
             /\ pc' = "grow"
  /\ UNCHANGED <<nodeInfluences, cs, collar, tiers, uiVars, ptVars, config, rng, attractors, iter, skVars, generations, firstGraph, tmVars>>

CloserOrEqual(attr, ns, ni, best) ==
  /\ ~ns[ni].position.nan
  /\ (best.idx < 0 \/ DistSq(attr, ns[ni].position) <= best.dsq)

\* dist < closestDist for node ni: never for a NaN distance.
Closer(attr, ns, ni, best) ==
  /\ ~ns[ni].position.nan
  /\ (best.idx < 0 \/ DistSq(attr, ns[ni].position) < best.dsq)

\* The nearest-node scan of _grow for one attractor, from node ni on:
\* the first node at the least distance.  idx = -1 when no node is at a
\* distance below Infinity.
RECURSIVE Closest(_, _, _, _)
Closest(attr, ns, ni, best) ==
  IF ni >= ALen(ns) THEN best
  ELSE Closest(attr, ns, ni + 1,
               IF Closer(attr, ns, ni, best)
               THEN [idx |-> ni, dsq |-> DistSq(attr, ns[ni].position)]
               ELSE best)

ClosestNode(attr, ns) == Closest(attr, ns, 0, [idx |-> -1, dsq |-> 0])

\* closestDist < killDistance
Killed(c, cl) == cl.idx >= 0 /\ DistLess(cl.dsq, c.killDistance)

\* closestDist < influenceRadius
Influenced(c, cl) == cl.idx >= 0 /\ DistLess(cl.dsq, c.influenceRadius)

\* nodeInfluences.get(idx).push(dir), creating the entry at the end of the
\* Map's insertion order when idx has none.  infl is the Map, as the
\* sequence of its entries.
RECURSIVE AddInfluence(_, _, _, _)
AddInfluence(infl, k, idx, dir) ==
  IF k > Len(infl) THEN Append(infl, [node |-> idx, directions |-> <<dir>>])
  ELSE IF infl[k].node = idx
       THEN [infl EXCEPT ![k].directions = Append(@, dir)]
       ELSE AddInfluence(infl, k + 1, idx, dir)

\* attractors.splice(ai, 1), ai 1-based here.
Splice(seq, ai) == SubSeq(seq, 1, ai - 1) \o SubSeq(seq, ai + 1, Len(seq))

\* The attractor loop stepping over the attractor next in line after a splice.
RECURSIVE ScanAttractorsSkipAfterKill(_, _, _, _, _)
ScanAttractorsSkipAfterKill(c, ns, attrs, ai, infl) ==
  IF ai < 1 THEN [attractors |-> attrs, nodeInfluences |-> infl]
  ELSE LET attr == attrs[ai]
           cl   == ClosestNode(attr, ns)
       IN IF Killed(c, cl)
          THEN ScanAttractorsSkipAfterKill(c, ns, Splice(attrs, ai), ai - 2, infl)
          ELSE IF Influenced(c, cl)
               THEN ScanAttractorsSkipAfterKill(c, ns, attrs, ai - 1,
                      AddInfluence(infl, 1, cl.idx,
                        Normalize(VSub(attr, ns[cl.idx].position))))
               ELSE ScanAttractorsSkipAfterKill(c, ns, attrs, ai - 1, infl)

\* The attractor loop of one iteration of _grow, from index ai down.
RECURSIVE ScanAttractors(_, _, _, _, _)
ScanAttractors(c, ns, attrs, ai, infl) ==
  IF ai < 1 THEN [attractors |-> attrs, nodeInfluences |-> infl]
  ELSE LET attr == attrs[ai]
           cl   == ClosestNode(attr, ns)
       IN IF Killed(c, cl)
          THEN ScanAttractors(c, ns, Splice(attrs, ai), ai - 1, infl)
          ELSE IF Influenced(c, cl)
               THEN ScanAttractors(c, ns, attrs, ai - 1,
                      AddInfluence(infl, 1, cl.idx,
                        Normalize(VSub(attr, ns[cl.idx].position))))
               ELSE ScanAttractors(c, ns, attrs, ai - 1, infl)

RECURSIVE VSum(_, _)
VSum(dirs, k) == IF k > Len(dirs) THEN VZero ELSE VAdd(dirs[k], VSum(dirs, k + 1))

\* (rng() - 0.5) * 0.2, for the value u / 2^16 drawn.
Jitter(u) == FDiv((u - W16 \div 2) * 2 * FP, W16 * 10)

NewNodeParentDepth(ns, nodeIdx, newPos) ==
  [ position |-> newPos,
    parentIndex |-> nodeIdx,
    depth |-> ns[nodeIdx].depth,
    thickness |-> 0,
    childCount |-> 0 ]

\* The node grown from node nodeIdx: depth and parent link.
NewNode(ns, nodeIdx, newPos) ==
  [ position |-> newPos,
    parentIndex |-> nodeIdx,
    depth |-> ns[nodeIdx].depth + 1,
    thickness |-> 0,
    childCount |-> 0 ]

GrowOneUnitStep(c, ns, r, entry) ==
  LET avgDir == Normalize(VSum(entry.directions, 1))
      r1 == RngStep(r)
      r2 == RngStep(r1.state)
      r3 == RngStep(r2.state)
      dir == Normalize(VAdd(avgDir,
               Vec(Jitter(r1.value), Jitter(r2.value), Jitter(r3.value))))
      newPos == VAdd(ns[entry.node].position, dir)
  IN [ nodes |-> APush([ns EXCEPT ![entry.node].childCount = @ + 1],
                       NewNode(ns, entry.node, newPos)),
       rng |-> r3.state ]

\* The body of the "grow new nodes" loop for one Map entry.
\* _grow's push with the parent's position moved in place.
GrowOneNoClone(c, ns, r, entry) ==
  LET avgDir == Normalize(VSum(entry.directions, 1))
      r1 == RngStep(r)
      r2 == RngStep(r1.state)
      r3 == RngStep(r2.state)
      dir == Normalize(VAdd(avgDir,
               Vec(Jitter(r1.value), Jitter(r2.value), Jitter(r3.value))))
      newPos == VAdd(ns[entry.node].position, VScale(dir, c.segmentLength))
  IN [ nodes |-> APush([ns EXCEPT ![entry.node].childCount = @ + 1,
                                  ![entry.node].position = newPos],
                       NewNode(ns, entry.node, newPos)),
       rng |-> r3.state ]

GrowOne(c, ns, r, entry) ==
  LET avgDir == Normalize(VSum(entry.directions, 1))
      r1 == RngStep(r)
      r2 == RngStep(r1.state)
      r3 == RngStep(r2.state)
      dir == Normalize(VAdd(avgDir,
               Vec(Jitter(r1.value), Jitter(r2.value), Jitter(r3.value))))
      newPos == VAdd(ns[entry.node].position, VScale(dir, c.segmentLength))
  IN [ nodes |-> APush([ns EXCEPT ![entry.node].childCount = @ + 1],
                       NewNode(ns, entry.node, newPos)),
       rng |-> r3.state ]

RECURSIVE GrowNodes(_, _, _, _, _)
GrowNodes(c, ns, r, infl, k) ==
  IF k > Len(infl) THEN [nodes |-> ns, rng |-> r]
  ELSE LET g == GrowOne(c, ns, r, infl[k])
       IN GrowNodes(c, g.nodes, g.rng, infl, k + 1)

GrowIterPastBreak ==
  /\ pc = "grow"
  /\ iter < config.maxIterations
  /\ LET scan == ScanAttractors(config, nodes, attractors, Len(attractors), << >>)
         g    == GrowNodes(config, nodes, rng, scan.nodeInfluences, 1)
     IN /\ attractors' = scan.attractors
        /\ nodes' = g.nodes
        /\ rng' = g.rng
        /\ nodeInfluences' = scan.nodeInfluences
  /\ iter' = iter + 1
  /\ UNCHANGED <<cs, collar, tiers, uiVars, ptVars, config, pc, skVars, generations, firstGraph, tmVars>>

\* One iteration of the for loop of _grow (the loop test has passed and the
\* attractors are not exhausted).
GrowIter ==
  /\ pc = "grow"
  /\ iter < config.maxIterations
  /\ Len(attractors) # 0
  /\ LET scan == ScanAttractors(config, nodes, attractors, Len(attractors), << >>)
         g    == GrowNodes(config, nodes, rng, scan.nodeInfluences, 1)
     IN /\ attractors' = scan.attractors
        /\ nodes' = g.nodes
        /\ rng' = g.rng
        /\ nodeInfluences' = scan.nodeInfluences
  /\ iter' = iter + 1
  /\ UNCHANGED <<cs, collar, tiers, uiVars, ptVars, config, pc, skVars, generations, firstGraph, tmVars>>

\* The loop of _grow is left: the counter ran out, or by the break.
GrowDone ==
  /\ pc = "grow"
  /\ (iter >= config.maxIterations \/ Len(attractors) = 0)
  /\ pc' = "thickness"
  /\ UNCHANGED <<nodeInfluences, cs, collar, tiers, uiVars, ptVars, config, scVars, skVars, generations, firstGraph, tmVars>>

\* The children lookup built from the parent links (in _computeThickness and
\* again in TreeSkeleton.generate): children[p] lists, in increasing order,
\* the nodes whose parentIndex is p.
RECURSIVE ChildrenOf(_, _, _)
ChildrenOf(ns, p, i) ==
  IF i >= ALen(ns) THEN << >>
  ELSE (IF ns[i].parentIndex = p THEN <<i>> ELSE << >>) \o ChildrenOf(ns, p, i + 1)

BuildChildren(ns) == [p \in DOMAIN ns |-> ChildrenOf(ns, p, 0)]

\* The traversal of _computeThickness: pop, skip if visited, record, push the
\* children.  The sequence's last element is the top of the stack.
RECURSIVE VisitOrder(_, _, _, _)
VisitOrder(ch, stack, visited, order) ==
  IF Len(stack) = 0 THEN order
  ELSE LET idx  == stack[Len(stack)]
           rest == SubSeq(stack, 1, Len(stack) - 1)
       IN IF idx \in visited THEN VisitOrder(ch, rest, visited, order)
          ELSE VisitOrder(ch, rest \o ch[idx], visited \cup {idx}, Append(order, idx))

\* floor of the p-th root of n (n >= 0, p >= 1).
RECURSIVE RootSearch(_, _, _, _)
RootSearch(n, p, lo, hi) ==
  IF lo >= hi THEN lo
  ELSE LET mid == (lo + hi + 1) \div 2
       IN IF IPow(mid, p) <= n THEN RootSearch(n, p, mid, hi)
                               ELSE RootSearch(n, p, lo, mid - 1)

\* The largest base whose p-th power is a 32-bit integer.
RootLimit(p) == IF p = 1 THEN 2147483647 ELSE IF p = 2 THEN 46340
                ELSE IF p = 3 THEN 1290 ELSE 215

IRoot(n, p) == RootSearch(n, p, 0, Min(n, RootLimit(p)))

RECURSIVE PowSum(_, _, _, _)
PowSum(ns, kids, k, p) ==
  IF k > Len(kids) THEN 0
  ELSE IPow(ns[kids[k]].thickness, p) + PowSum(ns, kids, k + 1, p)

PipeThicknessLinear(ns, kids, p) == PowSum(ns, kids, 1, 1)

\* Math.pow(sum of Math.pow(child.thickness, n), 1 / n).  A thickness t is
\* the integer t * FP, its n-th power the integer t^n * FP^n.
PipeThickness(ns, kids, p) == IRoot(PowSum(ns, kids, 1, p), p)

\* The loop walking order from its start: parents before their children.
RECURSIVE AccumulateRootFirst(_, _, _, _, _)
AccumulateRootFirst(ns, ch, order, i, p) ==
  IF i < 1 THEN ns
  ELSE LET idx == order[Len(order) - i + 1]
       IN AccumulateRootFirst(
            IF Len(ch[idx]) > 0
            THEN [ns EXCEPT ![idx].thickness = PipeThickness(ns, ch[idx], p)]
            ELSE ns,
            ch, order, i - 1, p)

\* The "leaves first" loop: order is walked from its end.
RECURSIVE Accumulate(_, _, _, _, _)
Accumulate(ns, ch, order, i, p) ==
  IF i < 1 THEN ns
  ELSE LET idx == order[i]
       IN Accumulate(
            IF Len(ch[idx]) > 0
            THEN [ns EXCEPT ![idx].thickness = PipeThickness(ns, ch[idx], p)]
            ELSE ns,
            ch, order, i - 1, p)

\* The thickness before the final rescale.
RawThickness(ns, p) ==
  LET leaves == [i \in DOMAIN ns |->
                   IF ns[i].childCount = 0 THEN [ns[i] EXCEPT !.thickness = FP]
                   ELSE ns[i]]
      ch     == BuildChildren(ns)
      order  == VisitOrder(ch, <<0>>, {}, << >>)
  IN Accumulate(leaves, ch, order, Len(order), p)

\* scale = trunkBaseRadius / rootThickness, kept with FP * FP as its unit.
ScaleOf(base, rootThickness) == FDiv(base * FP * FP, rootThickness)

\* node.thickness *= scale
Rescaled(t, scale) == FDiv(t * scale, FP * FP)

Rescale(ns, base) ==
  LET rootThickness == ns[0].thickness
  IN IF rootThickness > 0
     THEN [i \in DOMAIN ns |->
             [ns[i] EXCEPT !.thickness = Rescaled(@, ScaleOf(base, rootThickness))]]
     ELSE ns

\* _computeThickness up to its last loop: the leaves, the traversal and the
\* accumulation.  With no node at all, children[0] is undefined and the
\* traversal's for-of throws a TypeError, which ends generate().
ComputeThickness ==
  /\ pc = "thickness"
  /\ IF ALen(nodes) = 0
     THEN /\ pc' = "threw"
          /\ UNCHANGED nodes
     ELSE /\ nodes' = RawThickness(nodes, config.pipeExponent)
          /\ pc' = "rescale"
  /\ UNCHANGED <<nodeInfluences, cs, collar, tiers, uiVars, ptVars, config, rng, attractors, iter, skVars, generations, firstGraph, tmVars>>

\* The end of _computeThickness: the scaling to trunkBaseRadius, and the
\* return of generate().
RescaleThickness ==
  /\ pc = "rescale"
  /\ nodes' = Rescale(nodes, config.trunkBaseRadius)
  /\ pc' = "return"
  /\ UNCHANGED <<nodeInfluences, cs, collar, tiers, uiVars, ptVars, config, rng, attractors, iter, skVars, generations, firstGraph, tmVars>>

\* ------------------------------------------------------------------------
\* TreeSkeleton
\* ------------------------------------------------------------------------

FinishGenerateKeepSegments ==
  /\ pc = "return"
  /\ skNodes' = nodes
  /\ children' = BuildChildren(nodes)
  /\ generations' = generations + 1
  /\ firstGraph' = IF generations = 0 THEN nodes ELSE firstGraph
  /\ pc' = "idle"
  /\ UNCHANGED <<nodeInfluences, cs, collar, tiers, uiVars, ptVars, config, scVars, segments, segResult, tmVars>>

\* The rest of TreeSkeleton.generate() once sc.generate() has returned.
FinishGenerate ==
  /\ pc = "return"
  /\ skNodes' = nodes
  /\ children' = BuildChildren(nodes)
  /\ segments' = NullSegments
  /\ generations' = generations + 1
  /\ firstGraph' = IF generations = 0 THEN nodes ELSE firstGraph
  /\ pc' = "idle"
  /\ UNCHANGED <<nodeInfluences, cs, collar, tiers, uiVars, ptVars, config, scVars, segResult, tmVars>>

\* segments.push(segment) under its guard, segment.length >= 2.
CloseSegmentAlways(segs, segment) == Append(segs, segment)

CloseSegment(segs, segment) ==
  IF Len(segment) >= 2 THEN Append(segs, segment) ELSE segs

ForkEntriesFirstChildOnly(nodeIdx, kids) ==
  <<[nodeIdx |-> kids[1], segment |-> <<nodeIdx>>]>>

ForkEntriesWithoutFork(nodeIdx, kids) ==
  [k \in 1..Len(kids) |-> [nodeIdx |-> kids[k], segment |-> << >>]]

\* The entries pushed at a fork: one per child, each segment starting with
\* the fork node.
ForkEntries(nodeIdx, kids) ==
  [k \in 1..Len(kids) |-> [nodeIdx |-> kids[k], segment |-> <<nodeIdx>>]]

\* The traversal of getBranchSegments: stack holds {nodeIdx, segment} entries,
\* its last element the top; segs are the segments pushed so far.
RECURSIVE SegmentWalk(_, _, _)
SegmentWalk(ch, stack, segs) ==
  IF Len(stack) = 0 THEN segs
  ELSE LET top      == stack[Len(stack)]
           rest     == SubSeq(stack, 1, Len(stack) - 1)
           nodeIdx  == top.nodeIdx
           segment  == Append(top.segment, nodeIdx)
           kids     == ch[nodeIdx]
       IN IF Len(kids) = 0
          THEN SegmentWalk(ch, rest, CloseSegment(segs, segment))
          ELSE IF Len(kids) = 1
               THEN SegmentWalk(ch,
                      Append(rest, [nodeIdx |-> kids[1], segment |-> segment]), segs)
               ELSE SegmentWalk(ch, rest \o ForkEntries(nodeIdx, kids),
                                CloseSegment(segs, segment))

BranchSegments(ch) ==
  SegmentWalk(ch, <<[nodeIdx |-> 0, segment |-> << >>]>>, << >>)

\* getBranchSegments(), on a skeleton that has been generated: the cached
\* segments if there are any, else the traversal, cached.
GetBranchSegments ==
  /\ pc = "idle"
  /\ generations >= 1
  /\ IF segments.cached
     THEN /\ segResult' = segments.value
          /\ UNCHANGED segments
     ELSE /\ segments' = [cached |-> TRUE, value |-> BranchSegments(children)]
          /\ segResult' = segments'.value
  /\ UNCHANGED <<nodeInfluences, cs, collar, tiers, uiVars, ptVars, config, pc, scVars, skNodes, children, generations, firstGraph, tmVars>>

\* getBranchSegments() on the skeleton as it stands: the cached segments, or
\* the traversal.
CurrentSegments(sg, ch) == IF sg.cached THEN sg.value ELSE BranchSegments(ch)

\* getTerminalNodes(): the nodes without a child, from index i on.
RECURSIVE GetTerminalNodes(_, _)
GetTerminalNodes(ch, i) ==
  IF i \notin DOMAIN ch THEN << >>
  ELSE (IF Len(ch[i]) = 0 THEN <<i>> ELSE << >>) \o GetTerminalNodes(ch, i + 1)

\* getForkNodes(): the nodes with more than one child, from index i on.
RECURSIVE GetForkNodes(_, _)
GetForkNodes(ch, i) ==
  IF i >= ALen(ch) THEN << >>
  ELSE (IF Len(ch[i]) > 1 THEN <<i>> ELSE << >>) \o GetForkNodes(ch, i + 1)

\* getMaxDepth(), from index i on with the maximum so far.
RECURSIVE GetMaxDepth(_, _, _)
GetMaxDepth(ns, i, max) ==
  IF i >= ALen(ns) THEN max
  ELSE GetMaxDepth(ns, i + 1, IF ns[i].depth > max THEN ns[i].depth ELSE max)

\* ------------------------------------------------------------------------
\* BranchJunction
\* ------------------------------------------------------------------------

\* The childDirections of one fork.
ChildDirections(ns, forkIdx, kids) ==
  [k \in 1..Len(kids) |->
     [ dir |-> Normalize(VSub(ns[kids[k]].position, ns[forkIdx].position)),
       radius |-> ns[kids[k]].thickness ]]

\* computeJunctions(skeleton): one descriptor per fork node.
ComputeJunctions(ns, ch, forks) ==
  [k \in 1..Len(forks) |->
     [ point |-> ns[forks[k]].position,
       parentRadius |-> ns[forks[k]].thickness,
       childDirections |-> ChildDirections(ns, forks[k], ch[forks[k]]) ]]

\* ------------------------------------------------------------------------
\* TrunkMesh
\* ------------------------------------------------------------------------

\* new TrunkMesh(skeleton, config), on a skeleton that has been generated.
\* The noise tables seeded with seed + 777 and seed + 555 are functions of
\* config.seed alone and hold no state afterwards.
NewTrunkMesh ==
  /\ pc = "idle"
  /\ generations >= 1
  /\ builder' = TRUE
  /\ branchRng' = mulberry32(config.seed + 999)
  /\ maxDepth' = GetMaxDepth(skNodes, 0, 0)
  /\ burls' = << >>
  /\ junctions' = << >>
  /\ builds' = 0
  /\ UNCHANGED <<nodeInfluences, cs, collar, tiers, uiVars, ptVars, config, pc, scVars, skVars, generations, firstGraph, geometry,
                 firstMesh>>

\* _getTier with its comparisons turned around.
GetTierInverted(c, num, den) ==
  IF 2 * num < c.trunkBaseRadius * den
  THEN [ radialSegments |-> c.trunkRadialSegments,
         spacingNum |-> c.trunkAxialSpacing, spacingDen |-> 1 ]
  ELSE IF 5 * num < c.trunkBaseRadius * den
  THEN [ radialSegments |-> c.primaryRadialSegments,
         spacingNum |-> c.branchAxialSpacing, spacingDen |-> 1 ]
  ELSE IF 25 * num < 2 * c.trunkBaseRadius * den
  THEN [ radialSegments |-> c.secondaryRadialSegments,
         spacingNum |-> c.branchAxialSpacing, spacingDen |-> 1 ]
  ELSE [ radialSegments |-> c.tertiaryRadialSegments,
         spacingNum |-> 6 * c.branchAxialSpacing, spacingDen |-> 5 ]

\* _getTier(radius), for the radius num / den (den > 0): the radial segments
\* and the axial spacing, kept as the fraction spacingNum / spacingDen.
GetTier(c, num, den) ==
  IF 2 * num > c.trunkBaseRadius * den
  THEN [ radialSegments |-> c.trunkRadialSegments,
         spacingNum |-> c.trunkAxialSpacing, spacingDen |-> 1 ]
  ELSE IF 5 * num > c.trunkBaseRadius * den
  THEN [ radialSegments |-> c.primaryRadialSegments,
         spacingNum |-> c.branchAxialSpacing, spacingDen |-> 1 ]
  ELSE IF 25 * num > 2 * c.trunkBaseRadius * den
  THEN [ radialSegments |-> c.secondaryRadialSegments,
         spacingNum |-> c.branchAxialSpacing, spacingDen |-> 1 ]
  ELSE [ radialSegments |-> c.tertiaryRadialSegments,
         spacingNum |-> 6 * c.branchAxialSpacing, spacingDen |-> 5 ]

\* nodeRadii.reduce((a, b) => a + b, 0), from element k on.
RECURSIVE RadiusSum(_, _, _)
RadiusSum(ns, segment, k) ==
  IF k > Len(segment) THEN 0
  ELSE ns[segment[k]].thickness + RadiusSum(ns, segment, k + 1)

\* curve.getLength() of the centripetal Catmull-Rom curve through the
\* segment's nodes.  The curve is the library's; its length is taken to be
\* the length of the polyline through the nodes, from element k on.
RECURSIVE CurveLength(_, _, _)
CurveLength(ns, segment, k) ==
  IF k >= Len(segment) THEN 0
  ELSE ISqrt(DistSq(ns[segment[k]].position, ns[segment[k + 1]].position))
       + CurveLength(ns, segment, k + 1)

\* Math.max(2, Math.ceil(totalLength / spacing)), spacing > 0.
SampleCount(totalLength, tier) ==
  Max(2, CeilDiv(totalLength * tier.spacingDen, tier.spacingNum))

\* The vertices one ring pushes, j = 0 .. radialSegs: <<ring, j>> each.
Ring(i, radialSegs) == [k \in 1..(radialSegs + 1) |-> <<i, k - 1>>]

\* The vertices of the rings i .. ringCount - 1, in the order pushed.
RECURSIVE Rings(_, _, _)
Rings(i, ringCount, radialSegs) ==
  IF i >= ringCount THEN << >>
  ELSE Ring(i, radialSegs) \o Rings(i + 1, ringCount, radialSegs)

\* The two triangles a, b, c and c, b, d of every quad between ring i and
\* ring i + 1.
QuadRow(i, stride, radialSegs) ==
  [k \in 1..(6 * radialSegs) |->
     LET a == i * stride + (k - 1) \div 6
         b == a + stride
     IN <<a, b, a + 1, a + 1, b, b + 1>>[((k - 1) % 6) + 1]]

\* The indices between the rings i .. rowCount, in the order pushed.
RECURSIVE Quads(_, _, _, _)
Quads(i, rowCount, stride, radialSegs) ==
  IF i >= rowCount THEN << >>
  ELSE QuadRow(i, stride, radialSegs) \o Quads(i + 1, rowCount, stride, radialSegs)

TipFanAfterPush(lastRingStart, radialSegs, tipIdx) ==
  [k \in 1..(3 * radialSegs) |->
     LET j == (k - 1) \div 3
     IN <<lastRingStart + j, lastRingStart + j + 1, tipIdx + 1>>[((k - 1) % 3) + 1]]

\* The fan that caps the tip: lastRingStart + j, lastRingStart + j + 1, tipIdx.
TipFan(lastRingStart, radialSegs, tipIdx) ==
  [k \in 1..(3 * radialSegs) |->
     LET j == (k - 1) \div 3
     IN <<lastRingStart + j, lastRingStart + j + 1, tipIdx>>[((k - 1) % 3) + 1]]

\* The tip vertex, as <<-1, 0>>.
TipVertex == <<-1, 0>>

\* The tip cap: tipIdx = positions.length / 3 as it is before the tip vertex
\* is pushed.
Capped(vertices, indices, lastRingStart, radialSegs) ==
  [ vertices |-> Append(vertices, TipVertex),
    indices |-> indices \o TipFan(lastRingStart, radialSegs, Len(vertices)) ]

\* The buffers of a swept tube: the positions as the <<ring, j>> each vertex
\* was pushed for, and the index list.
Tube(ringCount, radialSegs, tip) ==
  IF tip
  THEN Capped(Rings(0, ringCount, radialSegs),
              Quads(0, ringCount - 1, radialSegs + 1, radialSegs),
              (ringCount - 1) * (radialSegs + 1), radialSegs)
  ELSE [ vertices |-> Rings(0, ringCount, radialSegs),
         indices |-> Quads(0, ringCount - 1, radialSegs + 1, radialSegs) ]

\* sampledRadii[last] < 0.05: the last sample has the last node's radius.
HasTipCap(ns, segment) == 20 * ns[segment[Len(segment)]].thickness < FP

\* The geometry of one segment: its buffers, and what else decides their
\* contents (the nodes swept, the two branchRng draws, maxDepth).
SegmentGeometry(segment, radialSegs, ringCount, tube, branchSeed, branchPhase, md) ==
  [ kind |-> "segment", segment |-> segment,
    radialSegments |-> radialSegs, rings |-> ringCount,
    vertices |-> tube.vertices, indices |-> tube.indices,
    draws |-> <<branchSeed, branchPhase>>, maxDepth |-> md ]

\* The ring loop and the index loop: ringCount = sampleCount + 1 samples.
SweepSegment(ns, segment, tier, sampleCount, branchSeed, branchPhase, md) ==
  SegmentGeometry(segment, tier.radialSegments, sampleCount + 1,
                  Tube(sampleCount + 1, tier.radialSegments, HasTipCap(ns, segment)),
                  branchSeed, branchPhase, md)

\* The sampling of the curve at the tier's axial spacing.
SampleSegment(ns, md, segment, tier, branchSeed, branchPhase) ==
  SweepSegment(ns, segment, tier,
               SampleCount(CurveLength(ns, segment, 1), tier),
               branchSeed, branchPhase, md)

\* _buildSegmentGeometry(segment), segment.length >= 2, with the two values
\* drawn from branchRng.
BuildSegmentGeometry(c, ns, md, segment, branchSeed, branchPhase) ==
  SampleSegment(ns, md, segment,
                GetTier(c, RadiusSum(ns, segment, 1), Len(segment)),
                branchSeed, branchPhase)

\* The generator's state after n more calls, 0 <= n < 2^16: each call adds
\* 0x6d2b79f5 to the state, n calls add n * 0x6d2b79f5, modulo 2^32.
Skip(s, n) == Add32(s, Imul(<<0, n>>, <<27947, 31221>>))

\* The value the n-th next call returns.
Draw(s, n) == RngResult(Skip(s, n)).value

\* The loop of build() over the segments, from segment k on: r is branchRng,
\* geoms the geometries pushed so far.
RECURSIVE SegmentGeometries(_, _, _, _, _, _, _)
SegmentGeometries(c, ns, md, segs, k, r, geoms) ==
  IF k > Len(segs) THEN [geometries |-> geoms, branchRng |-> r]
  ELSE IF Len(segs[k]) < 2 THEN SegmentGeometries(c, ns, md, segs, k + 1, r, geoms)
  ELSE SegmentGeometries(c, ns, md, segs, k + 1, Skip(r, 2),
         Append(geoms,
           BuildSegmentGeometry(c, ns, md, segs[k], Draw(r, 1), Draw(r, 2))))

\* radius < 0.04 || radius > 0.18
WeldSkipped(radius) == 25 * radius < FP \/ 50 * radius > 9 * FP

\* The weld of one fork: segs = 3, so 4 rings of 7 vertices.
WeldGeometry(forkIdx, md) ==
  [ kind |-> "weld", node |-> forkIdx,
    vertices |-> Rings(0, 4, 6), indices |-> Quads(0, 3, 7, 6), maxDepth |-> md ]

\* _generateJunctionWelds(), from fork k on.
RECURSIVE JunctionWelds(_, _, _, _)
JunctionWelds(ns, forks, k, md) ==
  IF k > Len(forks) THEN << >>
  ELSE (IF WeldSkipped(ns[forks[k]].thickness) THEN << >>
        ELSE <<WeldGeometry(forks[k], md)>>)
       \o JunctionWelds(ns, forks, k + 1, md)

\* Math.sin of u / 2^16 of a turn, in FP units (Bhaskara's approximation of
\* the half wave; the library function is exact to the last bit).
SinTurn(u) ==
  LET half == u % (W16 \div 2)
      q    == (half * (W16 \div 2 - half)) \div 1024
      s    == (16 * q * FP) \div (5 * 1048576 - 4 * q)
  IN IF u % W16 < W16 \div 2 THEN s ELSE -s

\* Math.cos of u / 2^16 of a turn, in FP units.
CosTurn(u) == SinTurn((u + W16 \div 4) % W16)

\* candidates[(rng() * candidates.length) | 0], for the value u / 2^16 drawn.
Pick(candidates, u) == candidates[((u * Len(candidates)) \div W16) + 1]

\* min + rng() * (max - min), for the value u / 2^16 drawn.
Between(min, max, u) == min + FDiv(u * (max - min), W16)

\* The nodes i.. with thickness > trunkBaseRadius * num / den and
\* position.y > minY (a NaN fails the comparison).
RECURSIVE ThickNodesAbove(_, _, _, _, _, _)
ThickNodesAbove(c, ns, i, num, den, minY) ==
  IF i >= ALen(ns) THEN << >>
  ELSE (IF /\ den * ns[i].thickness > num * c.trunkBaseRadius
           /\ ~ns[i].position.nan
           /\ ns[i].position.y > minY
        THEN <<i>> ELSE << >>)
       \o ThickNodesAbove(c, ns, i + 1, num, den, minY)

\* The burl centre: the node's position moved off the centreline by
\* thickness * 0.8 at the angle drawn.
BurlCenter(node, u) ==
  VAdd(node.position,
       Vec(FDiv(CosTurn(u) * ((node.thickness * 4) \div 5), FP), 0,
           FDiv(SinTurn(u) * ((node.thickness * 4) \div 5), FP)))

BurlTooCloseInverted(pos, bs, minSpacing) ==
  \E k \in 1..Len(bs) : ~DistLess(DistSq(pos, bs[k].center), minSpacing)

\* pos.distanceTo(existing.center) < burlMinSpacing, for some existing burl.
BurlTooClose(pos, bs, minSpacing) ==
  \E k \in 1..Len(bs) : DistLess(DistSq(pos, bs[k].center), minSpacing)

\* The pass with the loop condition this.burls.length <= burlCount.
BurlAttemptOneMore(c, ns, candidates, st) ==
  IF st.attempt >= c.burlCount * 10 \/ Len(st.bs) > c.burlCount THEN st
  ELSE IF Len(candidates) = 0
  THEN [attempt |-> st.attempt + 1, r |-> Skip(st.r, 1), bs |-> st.bs]
  ELSE IF BurlTooClose(BurlCenter(ns[Pick(candidates, Draw(st.r, 1))],
                                  Draw(st.r, 2)),
                       st.bs, c.burlMinSpacing)
  THEN [attempt |-> st.attempt + 1, r |-> Skip(st.r, 2), bs |-> st.bs]
  ELSE [ attempt |-> st.attempt + 1, r |-> Skip(st.r, 4),
         bs |-> Append(st.bs,
           [ center |-> BurlCenter(ns[Pick(candidates, Draw(st.r, 1))],
                                   Draw(st.r, 2)),
             radius |-> Between(c.burlRadiusMin, c.burlRadiusMax, Draw(st.r, 3)),
             height |-> Between(c.burlHeightMin, c.burlHeightMax, Draw(st.r, 4)) ]) ]

\* One pass of the attempt loop of _generateBurls: st holds the attempt
\* counter, the stream r seeded with seed + 333 and the burls bs accepted so
\* far.  A pass after the loop has ended changes nothing.
BurlAttempt(c, ns, candidates, st) ==
  IF st.attempt >= c.burlCount * 10 \/ Len(st.bs) >= c.burlCount THEN st
  ELSE IF Len(candidates) = 0
  THEN [attempt |-> st.attempt + 1, r |-> Skip(st.r, 1), bs |-> st.bs]
  ELSE IF BurlTooClose(BurlCenter(ns[Pick(candidates, Draw(st.r, 1))],
                                  Draw(st.r, 2)),
                       st.bs, c.burlMinSpacing)
  THEN [attempt |-> st.attempt + 1, r |-> Skip(st.r, 2), bs |-> st.bs]
  ELSE [ attempt |-> st.attempt + 1, r |-> Skip(st.r, 4),
         bs |-> Append(st.bs,
           [ center |-> BurlCenter(ns[Pick(candidates, Draw(st.r, 1))],
                                   Draw(st.r, 2)),
             radius |-> Between(c.burlRadiusMin, c.burlRadiusMax, Draw(st.r, 3)),
             height |-> Between(c.burlHeightMin, c.burlHeightMax, Draw(st.r, 4)) ]) ]

\* The next n passes of the attempt loop, the first half then the second.
RECURSIVE BurlAttempts(_, _, _, _, _)
BurlAttempts(c, ns, candidates, n, st) ==
  IF st.attempt >= c.burlCount * 10 \/ n = 1
  THEN BurlAttempt(c, ns, candidates, st)
  ELSE BurlAttempts(c, ns, candidates, n - n \div 2,
                    BurlAttempts(c, ns, candidates, n \div 2, st))

\* _generateBurls(): candidates are the nodes thicker than 0.15 of the base
\* radius and above y = 1.0; at most burlCount * 10 attempts.
GenerateBurls(c, ns) ==
  BurlAttempts(c, ns, ThickNodesAbove(c, ns, 0, 3, 20, FP), c.burlCount * 10,
               [attempt |-> 0, r |-> mulberry32(c.seed + 333),
                bs |-> << >>]).bs

\* pos.distanceTo(nodes[c].position) < 2.0, for some chosen node c.
StubTooClose(ns, idx, chosen) ==
  \E k \in 1..Len(chosen) :
    DistLess(DistSq(ns[idx].position, ns[chosen[k]].position), 2 * FP)

\* One pass of the choice loop of _generateDeadStubs: st holds the attempt
\* counter, the stream rng seeded with seed + 444 and the nodes chosen so far.
\* A pass after the loop has ended changes nothing.
StubAttempt(c, ns, candidates, st) ==
  IF st.attempt >= c.deadStubCount * 20 \/ Len(st.chosen) >= c.deadStubCount
  THEN st
  ELSE [ attempt |-> st.attempt + 1, rng |-> Skip(st.rng, 1),
         chosen |->
           IF StubTooClose(ns, Pick(candidates, Draw(st.rng, 1)), st.chosen)
           THEN st.chosen
           ELSE Append(st.chosen, Pick(candidates, Draw(st.rng, 1))) ]

\* The next n passes of the choice loop, the first half then the second.
RECURSIVE ChooseStubs(_, _, _, _, _)
ChooseStubs(c, ns, candidates, n, st) ==
  IF st.attempt >= c.deadStubCount * 20 \/ n = 1
  THEN StubAttempt(c, ns, candidates, st)
  ELSE ChooseStubs(c, ns, candidates, n - n \div 2,
                   ChooseStubs(c, ns, candidates, n \div 2, st))

\* The values one stub draws, in call order: stubLength, angle, upTilt, then
\* per ring (4 rings) its radius and the 7 vertex colours.
StubDraws(r) == [n \in 1..35 |-> Draw(r, n)]

\* The geometry of one stub: segs = 3 and radSegs = 6, so 4 rings of 7
\* vertices, and the tip cap.
StubGeometry(nodeIdx, tube, draws) ==
  [ kind |-> "stub", node |-> nodeIdx,
    vertices |-> tube.vertices, indices |-> tube.indices, draws |-> draws ]

\* The geometry loop of _generateDeadStubs, from chosen node k on.
RECURSIVE StubGeometries(_, _, _)
StubGeometries(chosen, k, r) ==
  IF k > Len(chosen) THEN << >>
  ELSE <<StubGeometry(chosen[k], Tube(4, 6, TRUE), StubDraws(r))>>
       \o StubGeometries(chosen, k + 1, Skip(r, 35))

StubsOf(choice) == StubGeometries(choice.chosen, 1, choice.rng)

\* _generateDeadStubs(): candidates are the nodes thicker than 0.12 of the
\* base radius and above y = 2.0; none of them, no stub.
GenerateDeadStubs(c, ns, candidates) ==
  IF Len(candidates) = 0 THEN << >>
  ELSE StubsOf(ChooseStubs(c, ns, candidates, c.deadStubCount * 20,
                           [attempt |-> 0, rng |-> mulberry32(c.seed + 444),
                            chosen |-> << >>]))

\* mergeGeometries(geometries), or null when there is none.
Merged(parts) ==
  IF Len(parts) = 0 THEN NullGeometry ELSE [merged |-> TRUE, parts |-> parts]

\* build(): burls, junctions, one geometry per segment, welds, stubs, merge.
Build ==
  /\ pc = "idle"
  /\ builder
  /\ builds < MaxBuilds
  /\ burls' = GenerateBurls(config, skNodes)
  /\ junctions' = ComputeJunctions(skNodes, children, GetForkNodes(children, 0))
  /\ \E segs \in {CurrentSegments(segments, children)} :
     \E swept \in {SegmentGeometries(config, skNodes, maxDepth, segs, 1, branchRng, << >>)} :
       /\ segments' = [cached |-> TRUE, value |-> segs]
       /\ segResult' = segs
       /\ branchRng' = swept.branchRng
       /\ geometry' =
            Merged(swept.geometries
                   \o JunctionWelds(skNodes, GetForkNodes(children, 0), 1, maxDepth)
                   \o GenerateDeadStubs(config, skNodes,
                        ThickNodesAbove(config, skNodes, 0, 3, 25, 2 * FP)))
  /\ firstMesh' = IF firstMesh.set \/ builds > 0 THEN firstMesh
                  ELSE [set |-> TRUE, value |-> geometry', burls |-> burls',
                        junctions |-> junctions', generation |-> generations]
  /\ builds' = builds + 1
  /\ UNCHANGED <<nodeInfluences, cs, collar, tiers, uiVars, ptVars, config, pc, scVars, skNodes, children, generations, firstGraph,
                 builder, maxDepth>>

\* ------------------------------------------------------------------------
\* computeParallelTransportFrames
\* ------------------------------------------------------------------------

\* crossVectors(a, b), in the square of the operands' unit.
Cross(a, b) ==
  Vec(a.y * b.z - a.z * b.y, a.z * b.x - a.x * b.z, a.x * b.y - a.y * b.x)

\* A product of two vectors in FP units, brought back to FP units.
Shrink(v) == Vec(FDiv(v.x, FP), FDiv(v.y, FP), FDiv(v.z, FP))

\* Math.max(lo, Math.min(hi, x))
Clamp(x, lo, hi) == Max(lo, Min(hi, x))

\* The seed axis: the axis along which the tangent is smallest.
SeedAxis(T) ==
  IF Abs(T.x) <= Abs(T.y) /\ Abs(T.x) <= Abs(T.z) THEN Vec(FP, 0, 0)
  ELSE IF Abs(T.y) <= Abs(T.z) THEN Vec(0, FP, 0)
  ELSE Vec(0, 0, FP)

\* The frame of T and N with B = T x N, not normalized.
FrameOf(T, N) == [T |-> T, N |-> N, B |-> Shrink(Cross(T, N))]

\* The first frame: N = normalize(seed x T).
FirstFrame(T) == FrameOf(T, Normalize(Cross(SeedAxis(T), T)))

TangentUnnormalized(pts, i) == VSub(pts[i + 2], pts[i + 1])

\* points[i + 1] - points[i], normalized; i is the program's 0-based index.
Tangent(pts, i) == Normalize(VSub(pts[i + 2], pts[i + 1]))

\* The cosine of the angle: T.dot(nextT) clamped to [-1, 1].
CosBetween(T, nextT) == Clamp(FDiv(VDot(T, nextT), FP), -FP, FP)

\* The sine of Math.acos(c), an angle in [0, pi].
SinOf(c) == ISqrt(FP * FP - c * c)

\* v.applyQuaternion(setFromAxisAngle(a, angle)) for a unit axis a: the
\* rotation of v about a, v cos + (a x v) sin + a (a . v)(1 - cos).
Rotated(v, a, c, s) ==
  VAdd(VAdd(Shrink(Vec(v.x * c, v.y * c, v.z * c)),
            Shrink(Shrink(Vec(Cross(a, v).x * s, Cross(a, v).y * s,
                              Cross(a, v).z * s)))),
       Shrink(Shrink(Shrink(Vec(a.x * VDot(a, v) * (FP - c),
                                a.y * VDot(a, v) * (FP - c),
                                a.z * VDot(a, v) * (FP - c))))))

\* len > 1e-6, for the length of the cross product of two unit vectors
\* whose square, in FP^4 units, is lenSq.
AboveRotationThreshold(lenSq) == ISqrt(lenSq) > 0

\* N after the rotation that takes T to nextT, or N itself when the rotation
\* is skipped.
Transported(N, T, nextT) ==
  IF AboveRotationThreshold(VLenSq(Cross(T, nextT)))
  THEN Rotated(N, Normalize(Cross(T, nextT)), CosBetween(T, nextT),
               SinOf(CosBetween(T, nextT)))
  ELSE N

ReorthogonalizedSwapped(nextT, B) ==
  [T |-> nextT, N |-> Normalize(Cross(nextT, B)), B |-> B]

\* N = normalize(B x nextT), for the B just computed.
Reorthogonalized(nextT, B) == [T |-> nextT, N |-> Normalize(Cross(B, nextT)), B |-> B]

\* The frame the loop body pushes: B = normalize(nextT x N), then N.
NextFrame(T, N, nextT) ==
  Reorthogonalized(nextT, Normalize(Cross(nextT, Transported(N, T, nextT))))

FramesCallUnchecked ==
  /\ fpc = "call"
  /\ IF Len(points) < 2
     THEN /\ fpc' = "return"
          /\ UNCHANGED <<frames, cur, fi>>
     ELSE /\ cur' = FirstFrame(Tangent(points, 0))
          /\ frames' = <<cur'>>
          /\ fi' = 1
          /\ fpc' = "loop"
  /\ UNCHANGED <<points, treeVars, cs, collar, tiers, uiVars>>

\* The call: the length check, then the first frame.
FramesCall ==
  /\ fpc = "call"
  /\ IF Len(points) < 2
     THEN /\ fpc' = "threw"
          /\ UNCHANGED <<frames, cur, fi>>
     ELSE /\ cur' = FirstFrame(Tangent(points, 0))
          /\ frames' = <<cur'>>
          /\ fi' = 1
          /\ fpc' = "loop"
  /\ UNCHANGED <<points, treeVars, cs, collar, tiers, uiVars>>

\* One pass of the loop, i = fi < points.length - 1.
FramesStep ==
  /\ fpc = "loop"
  /\ fi < Len(points) - 1
  /\ cur' = NextFrame(cur.T, cur.N, Tangent(points, fi))
  /\ frames' = Append(frames, cur')
  /\ fi' = fi + 1
  /\ UNCHANGED <<points, fpc, treeVars, cs, collar, tiers, uiVars>>

\* The loop is left: the last frame is pushed once more and frames returned.
FramesReturn ==
  /\ fpc = "loop"
  /\ fi >= Len(points) - 1
  /\ frames' = Append(frames, frames[Len(frames)])
  /\ fpc' = "return"
  /\ UNCHANGED <<points, cur, fi, treeVars, cs, collar, tiers, uiVars>>


\* ------------------------------------------------------------------------
\* getCrossSectionRadius
\* ------------------------------------------------------------------------

\* The values of noise1D explored, in FP units.
NoiseChoices == {-FP, 0, FP \div 2, FP}

\* The angles explored, in 2^-16 turns.
ThetaChoices == {0, W16 \div 12, W16 \div 3}

\* The heights explored: the base, halfway, the tip, beyond the tip.
HeightChoices == {0, FP \div 2, FP, 2 * FP}

\* The base radii explored, in FP units.
RadiusChoices == {70, 1000}

\* harm.n of the four harmonics.
HarmonicOrder == <<3, 4, 5, 6>>

\* harm.amp of the four harmonics, in hundredths.
HarmonicAmp == <<8, 5, 3, 2>>

IntensityFalloffNone(h) == FP

\* Math.max(0, 1.0 - h * 0.7)
IntensityFalloff(h) == Max(0, FP - FDiv(7 * h, 10))

\* harm.n * theta + phase, in 2^-16 turns: theta is in 2^-16 turns and
\* phase = noise * 2 pi is noise turns.
HarmonicAngle(n, theta, phaseNoise) ==
  (n * theta + FDiv(phaseNoise * W16, FP)) % W16

\* harm.amp * (0.5 + 0.5 * noise), in units of 1 / (100 FP).
DriftedAmp(amp, ampNoise) == FDiv(amp * (FP + ampNoise), 2)

\* baseRadius * amp * intensityFalloff * Math.cos(angle), for amp in units
\* of 1 / (100 FP).
HarmonicTerm(baseRadius, amp, falloff, angle) ==
  FDiv(baseRadius * FDiv(amp * falloff * CosTurn(angle), FP), 100 * FP * FP)

\* The call: r = baseRadius.
CrossCall ==
  /\ cs.pc = "call"
  /\ cs' = [cs EXCEPT !.pc = "loop", !.r = cs.baseRadius, !.k = 1]
  /\ UNCHANGED <<treeVars, ptVars, collar, tiers, uiVars>>

\* One pass of the loop over the harmonics; the two values noise1D returns
\* are any two values in [-1, 1].
CrossStep ==
  /\ cs.pc = "loop"
  /\ cs.k <= Len(HarmonicOrder)
  /\ \E phaseNoise \in NoiseChoices, ampNoise \in NoiseChoices :
       cs' = [cs EXCEPT
                !.r = @ + HarmonicTerm(cs.baseRadius,
                                       DriftedAmp(HarmonicAmp[cs.k], ampNoise),
                                       IntensityFalloff(cs.h),
                                       HarmonicAngle(HarmonicOrder[cs.k], cs.theta,
                                                     phaseNoise)),
                !.k = @ + 1]
  /\ UNCHANGED <<treeVars, ptVars, collar, tiers, uiVars>>

\* return r
CrossReturn ==
  /\ cs.pc = "loop"
  /\ cs.k > Len(HarmonicOrder)
  /\ cs' = [cs EXCEPT !.pc = "return"]
  /\ UNCHANGED <<treeVars, ptVars, collar, tiers, uiVars>>

Next ==
  \/ BeginGenerate \/ ScatterAttempt \/ ScatterDone \/ SeedTrunk
  \/ GrowIter \/ GrowDone \/ ComputeThickness \/ RescaleThickness
  \/ FinishGenerate
  \/ GetBranchSegments \/ NewTrunkMesh \/ Build

Spec == Init /\ [][Next]_vars

\* ------------------------------------------------------------------------
\* The collar block of _buildSegmentGeometry
\* ------------------------------------------------------------------------

\* TREE_CONFIG.collarSize, in FP units.
CollarSize == 15

\* distToJunc > junc.parentRadius: the early-out without its factor 4.
CollarSkippedUnscaled(vertexPos, junc) ==
  /\ ~vertexPos.nan /\ ~junc.point.nan
  /\ \/ junc.parentRadius < 0
     \/ DistSq(vertexPos, junc.point) > junc.parentRadius * junc.parentRadius

\* distToJunc > junc.parentRadius * 4, the early-out: never for a NaN
\* distance.
CollarSkipped(vertexPos, junc) ==
  /\ ~vertexPos.nan /\ ~junc.point.nan
  /\ \/ junc.parentRadius < 0
     \/ DistSq(vertexPos, junc.point) > 16 * junc.parentRadius * junc.parentRadius

\* The sign of branchCollarDisplacement(vertexPos, point, dir, radius,
\* collarSize) = radius * collarSize * axialFalloff * radialFalloff *
\* verticalBias: both falloffs are exponentials, above 0, and the bias is 1
\* or 0.6.  With radius 0 the falloffs divide by 0 and the product is
\* 0 * exp(-Infinity) = 0, or 0 * exp(NaN) = NaN at the junction point.
BranchCollarDisplacement(vertexPos, point, child, collarSize) ==
  IF vertexPos.nan \/ point.nan \/ child.dir.nan THEN "nan"
  ELSE IF child.radius = 0
       THEN (IF VDot(VSub(vertexPos, point), child.dir) = 0 THEN "nan" ELSE "zero")
       ELSE IF child.radius * collarSize > 0 THEN "pos"
            ELSE IF child.radius * collarSize < 0 THEN "neg" ELSE "zero"

\* The inner loop over junc.childDirections: one term per child.
ChildTerms(vertexPos, juncs, k, collarSize) ==
  [c \in 1..Len(juncs[k].childDirections) |->
     [ junction |-> k,
       term |-> BranchCollarDisplacement(vertexPos, juncs[k].point,
                  juncs[k].childDirections[c], collarSize) ]]

\* The loop over this.junctions, from junction k on: the terms added to
\* collarDisp, in order.
RECURSIVE CollarTerms(_, _, _, _)
CollarTerms(vertexPos, juncs, k, collarSize) ==
  IF k > Len(juncs) THEN << >>
  ELSE (IF CollarSkipped(vertexPos, juncs[k]) THEN << >>
        ELSE ChildTerms(vertexPos, juncs, k, collarSize))
       \o CollarTerms(vertexPos, juncs, k + 1, collarSize)

\* The sign of the sum of the terms, which are all of one sign or NaN.
CollarSum(terms) ==
  IF \E t \in 1..Len(terms) : terms[t].term = "nan" THEN "nan"
  ELSE IF \E t \in 1..Len(terms) : terms[t].term = "pos" THEN "pos"
       ELSE IF \E t \in 1..Len(terms) : terms[t].term = "neg" THEN "neg"
            ELSE "zero"

\* The ring vertices looked at: on the surface at each junction, one parent
\* radius from its point, and five parent radii away from it.
VertexChoices(juncs) ==
  { VAdd(juncs[k].point, Vec(m * juncs[k].parentRadius, 0, 0)) :
      k \in 1..Len(juncs), m \in {1, 5} }

\* The collar block for one vertex of a build: vertexPos as the layers before
\* it have left it, this.junctions as build() computed them.
CollarDisplacement ==
  /\ pc = "idle"
  /\ builder
  /\ builds >= 1
  /\ \E vertexPos \in VertexChoices(junctions) :
       LET terms == CollarTerms(vertexPos, junctions, 1, CollarSize)
       IN collar' = [ called |-> TRUE, vertexPos |-> vertexPos,
                      junctions |-> junctions, terms |-> terms,
                      collarDisp |-> CollarSum(terms),
                      moved |-> CollarSum(terms) = "pos" ]
  /\ UNCHANGED <<treeVars, ptVars, cs, tiers, uiVars>>

NextCollar == Next \/ CollarDisplacement

SpecCollar == Init /\ [][NextCollar]_vars

\* ------------------------------------------------------------------------
\* Two calls of _getTier, on their own
\* ------------------------------------------------------------------------

\* The mesh resolution of TREE_CONFIG, lengths in FP units.
TreeConfigResolution ==
  [BaseShape EXCEPT !.trunkRadialSegments = 12, !.primaryRadialSegments = 8,
                    !.secondaryRadialSegments = 5, !.tertiaryRadialSegments = 4,
                    !.trunkAxialSpacing = 20, !.branchAxialSpacing = 45]

\* The configurations the tiers are taken from: TREE_CONFIG's resolution, the
\* base shape, whose trunk spacing is the larger one, and a thin trunk.
TierShapes ==
  { TreeConfigResolution, BaseShape,
    [TreeConfigResolution EXCEPT !.trunkBaseRadius = 8] }

\* The average radii looked at, in FP units: 0 to 0.8, around every
\* threshold of the trunk base radii above.
TierRadii == { 3 * k : k \in 0..12 } \cup { 14, 35, 70, 80 }

InitTier ==
  /\ \E sh \in TierShapes : config = WithSeed(sh, 0, 0)
  /\ pc = "idle"
  /\ rng = mulberry32(0)
  /\ attractors = << >>
  /\ nodes = AEmpty
  /\ iter = 0
  /\ nodeInfluences = << >>
  /\ skNodes = AEmpty
  /\ children = AEmpty
  /\ segments = NullSegments
  /\ segResult = << >>
  /\ generations = 0
  /\ firstGraph = AEmpty
  /\ builder = FALSE
  /\ branchRng = mulberry32(0)
  /\ maxDepth = 0
  /\ burls = << >>
  /\ junctions = << >>
  /\ builds = 0
  /\ geometry = NullGeometry
  /\ firstMesh = NoMesh
  /\ points = << >>
  /\ frames = << >>
  /\ cur = NoFrame
  /\ fi = 0
  /\ fpc = "idle"
  /\ cs = NoCall
  /\ collar = NoCollar
  /\ Constructed(FALSE)
  /\ \E r1 \in TierRadii, r2 \in TierRadii :
       tiers = [pc |-> "call", r1 |-> r1, r2 |-> r2, t1 |-> << >>, t2 |-> << >>]

\* this._getTier(r1) and this._getTier(r2).
TierCalls ==
  /\ tiers.pc = "call"
  /\ tiers' = [tiers EXCEPT !.pc = "return",
                            !.t1 = GetTier(config, tiers.r1, 1),
                            !.t2 = GetTier(config, tiers.r2, 1)]
  /\ UNCHANGED <<treeVars, ptVars, cs, collar, uiVars>>

NextTier == TierCalls

SpecTier == InitTier /\ [][NextTier]_vars

\* ------------------------------------------------------------------------
\* Interaction: the fruit raycaster, the overlay and the camera flights
\* ------------------------------------------------------------------------

\* The fruits that can be clicked; the URL's hash, when it names one, names
\* HashFruit.
Fruits == {1, 2}
HashFruit == 1

MaxClicks == 3

\* fruitRaycaster.onClick(fruitMesh) up to its first await: disable(), then
\* flyTo is started.
OnClick(fruit) ==
  /\ listening' = FALSE
  /\ flyingTo' = Append(flyingTo, fruit)

\* startSequence() after loader.hide(): enable(), then playIntro is awaited.
StartSequence ==
  /\ startSeq = "loading"
  /\ listening' = TRUE
  /\ startSeq' = "intro"
  /\ UNCHANGED <<hash, clicks, flyingTo, flyingBack, isOpen, shown, onClose>>
  /\ UNCHANGED <<treeVars, ptVars, cs, collar, tiers>>

\* playIntro's timeline completes: with a hash that names a fruit the
\* 500 ms timer is set.
IntroComplete ==
  /\ startSeq = "intro"
  /\ startSeq' = IF hash THEN "timer" ELSE "done"
  /\ UNCHANGED <<hash, listening, clicks, flyingTo, flyingBack, isOpen, shown,
                 onClose>>
  /\ UNCHANGED <<treeVars, ptVars, cs, collar, tiers>>

\* The timer fires: onClick is called on the hash's fruit, not through the
\* raycaster's listener.
TimerFires ==
  /\ startSeq = "timer"
  /\ startSeq' = "done"
  /\ OnClick(HashFruit)
  /\ UNCHANGED <<hash, clicks, flyingBack, isOpen, shown, onClose>>
  /\ UNCHANGED <<treeVars, ptVars, cs, collar, tiers>>

\* A click on the window that hits a fruit: _onClick runs only while the
\* listener is registered.
UserClick ==
  /\ listening
  /\ clicks < MaxClicks
  /\ \E fruit \in Fruits : OnClick(fruit)
  /\ clicks' = clicks + 1
  /\ UNCHANGED <<hash, startSeq, flyingBack, isOpen, shown, onClose>>
  /\ UNCHANGED <<treeVars, ptVars, cs, collar, tiers>>

\* The oldest flyTo completes and its onClick goes on: portfolioOverlay.open
\* and the assignment of onClose.
FlyToComplete ==
  /\ Len(flyingTo) > 0
  /\ flyingTo' = Tail(flyingTo)
  /\ isOpen' = TRUE
  /\ shown' = Head(flyingTo)
  /\ onClose' = TRUE
  /\ UNCHANGED <<hash, startSeq, listening, clicks, flyingBack>>
  /\ UNCHANGED <<treeVars, ptVars, cs, collar, tiers>>

\* close(), from the close button, the backdrop or Escape: nothing unless the
\* overlay is open; onClose starts flyBack.
OverlayClose ==
  /\ isOpen
  /\ isOpen' = FALSE
  /\ flyingBack' = IF onClose THEN flyingBack + 1 ELSE flyingBack
  /\ UNCHANGED <<hash, startSeq, listening, clicks, flyingTo, shown, onClose>>
  /\ UNCHANGED <<treeVars, ptVars, cs, collar, tiers>>

\* A flyBack completes and its onClose goes on: fruitRaycaster.enable().
FlyBackComplete ==
  /\ flyingBack > 0
  /\ flyingBack' = flyingBack - 1
  /\ listening' = TRUE
  /\ UNCHANGED <<hash, startSeq, clicks, flyingTo, isOpen, shown, onClose>>
  /\ UNCHANGED <<treeVars, ptVars, cs, collar, tiers>>

InitInteraction ==
  /\ config = WithSeed(BaseShape, 0, 0)
  /\ pc = "idle"
  /\ rng = mulberry32(0)
  /\ attractors = << >>
  /\ nodes = AEmpty
  /\ iter = 0
  /\ nodeInfluences = << >>
  /\ skNodes = AEmpty
  /\ children = AEmpty
  /\ segments = NullSegments
  /\ segResult = << >>
  /\ generations = 0
  /\ firstGraph = AEmpty
  /\ builder = FALSE
  /\ branchRng = mulberry32(0)
  /\ maxDepth = 0
  /\ burls = << >>
  /\ junctions = << >>
  /\ builds = 0
  /\ geometry = NullGeometry
  /\ firstMesh = NoMesh
  /\ points = << >>
  /\ frames = << >>
  /\ cur = NoFrame
  /\ fi = 0
  /\ fpc = "idle"
  /\ cs = NoCall
  /\ collar = NoCollar
  /\ tiers = NoTier
  /\ \E h \in BOOLEAN : Constructed(h)

NextInteraction ==
  \/ StartSequence \/ IntroComplete \/ TimerFires \/ UserClick
  \/ FlyToComplete \/ OverlayClose \/ FlyBackComplete

SpecInteraction == InitInteraction /\ [][NextInteraction]_vars

\* The control flow of _generateAttractors' loop body: a pass draws three
\* values from rng.
ScatterFlow ==
  /\ pc = "attractors"
  /\ Len(attractors) < config.attractorCount
  /\ rng' = Skip(rng, 3)

\* The control flow of the other steps of generate(): what each does to pc
\* and to the loop counter of _grow.
GenerateFlow ==
  \/ /\ pc = "attractors" /\ Len(attractors) >= config.attractorCount
     /\ pc' = "seedTrunk" /\ iter' = iter
  \/ /\ pc = "seedTrunk"
     /\ pc' \in {"grow", "diverged"} /\ iter' = iter
  \/ /\ pc = "grow" /\ iter < config.maxIterations /\ Len(attractors) # 0
     /\ pc' = pc /\ iter' = iter + 1
  \/ /\ pc = "grow" /\ (iter >= config.maxIterations \/ Len(attractors) = 0)
     /\ pc' = "thickness" /\ iter' = iter
  \/ /\ pc = "thickness"
     /\ pc' \in {"rescale", "threw"} /\ iter' = iter
  \/ /\ pc = "rescale"
     /\ pc' = "return" /\ iter' = iter

\* generate() is synchronous: once called, its next step is taken as long as
\* it has one, until it returns, throws or runs forever.  The steps of
\* generate() are the only steps that follow its control flow.
RunToCompletion == WF_rng(ScatterFlow) /\ WF_<<pc, iter>>(GenerateFlow)

SpecFair == Spec /\ RunToCompletion

\* The sample points explored: on a line, off it, and not along an axis.
PointChoices ==
  { Vec(0, 0, 0), Vec(0, 100, 0), Vec(0, 200, 0), Vec(100, 100, 0),
    Vec(30, 150, -60) }

PointSeqs == UNION { [1..n -> PointChoices] : n \in 0..MaxPoints }

\* A call of computeParallelTransportFrames(points) on its own.
InitFrames ==
  /\ config = WithSeed(BaseShape, 0, 0)
  /\ pc = "idle"
  /\ rng = mulberry32(0)
  /\ attractors = << >>
  /\ nodes = AEmpty
  /\ iter = 0
  /\ nodeInfluences = << >>
  /\ skNodes = AEmpty
  /\ children = AEmpty
  /\ segments = NullSegments
  /\ segResult = << >>
  /\ generations = 0
  /\ firstGraph = AEmpty
  /\ builder = FALSE
  /\ branchRng = mulberry32(0)
  /\ maxDepth = 0
  /\ burls = << >>
  /\ junctions = << >>
  /\ builds = 0
  /\ geometry = NullGeometry
  /\ firstMesh = NoMesh
  /\ points \in PointSeqs
  /\ frames = << >>
  /\ cur = NoFrame
  /\ fi = 0
  /\ fpc = "call"
  /\ cs = NoCall
  /\ collar = NoCollar
  /\ Constructed(FALSE)
  /\ tiers = NoTier

\* A call of getCrossSectionRadius(theta, h, baseRadius, seed, noise1D) on
\* its own; seed only reaches the result through noise1D.
InitCross ==
  /\ config = WithSeed(BaseShape, 0, 0)
  /\ pc = "idle"
  /\ rng = mulberry32(0)
  /\ attractors = << >>
  /\ nodes = AEmpty
  /\ iter = 0
  /\ nodeInfluences = << >>
  /\ skNodes = AEmpty
  /\ children = AEmpty
  /\ segments = NullSegments
  /\ segResult = << >>
  /\ generations = 0
  /\ firstGraph = AEmpty
  /\ builder = FALSE
  /\ branchRng = mulberry32(0)
  /\ maxDepth = 0
  /\ burls = << >>
  /\ junctions = << >>
  /\ builds = 0
  /\ geometry = NullGeometry
  /\ firstMesh = NoMesh
  /\ points = << >>
  /\ frames = << >>
  /\ cur = NoFrame
  /\ fi = 0
  /\ fpc = "idle"
  /\ collar = NoCollar
  /\ Constructed(FALSE)
  /\ tiers = NoTier
  /\ \E theta \in ThetaChoices, h \in HeightChoices, b \in RadiusChoices :
       cs = [pc |-> "call", theta |-> theta, h |-> h, baseRadius |-> b,
             r |-> 0, k |-> 0]

NextCross == CrossCall \/ CrossStep \/ CrossReturn

SpecCross == InitCross /\ [][NextCross]_vars

NextFrames == FramesCall \/ FramesStep \/ FramesReturn

SpecFrames == InitFrames /\ [][NextFrames]_vars

\* ------------------------------------------------------------------------
\* Properties
\* ------------------------------------------------------------------------

\* The graphs generate() has returned: the one sc.generate() hands back and
\* the one the skeleton holds.
Returned(P(_)) ==
  /\ pc = "return" => P(nodes)
  /\ generations >= 1 => P(skNodes)

IsFork(ch, i) == Len(ch[i]) > 1

HasFork(ns) == \E i \in DOMAIN ns : ns[i].childCount > 1

RECURSIVE ReachesRoot(_, _, _)
ReachesRoot(ns, i, fuel) ==
  IF i = 0 THEN TRUE
  ELSE IF fuel = 0 \/ i \notin DOMAIN ns THEN FALSE
       ELSE ReachesRoot(ns, ns[i].parentIndex, fuel - 1)

GraphValid(ns) ==
  /\ ALen(ns) >= 1
  /\ ns[0].parentIndex < 0
  /\ \A i \in DOMAIN ns \ {0} :
       /\ ns[i].parentIndex \in 0..(i - 1)
       /\ ns[i].depth = ns[ns[i].parentIndex].depth + 1
  /\ \A i \in DOMAIN ns : ReachesRoot(ns, i, ALen(ns))

\* C1: every node graph generate() returns has node 0 as its only node
\* without a parent, every other node's parentIndex is a smaller valid index,
\* depth(child) = depth(parent) + 1 on every edge, and every node reaches the
\* root through parent links.  The same holds of the graph after trunk
\* seeding and after each growth iteration.
C1_GraphValid ==
  /\ Returned(GraphValid)
  /\ (pc \in {"grow", "thickness"} /\ ALen(nodes) > 0) => GraphValid(nodes)

C1_Witness ==
  /\ pc = "return"
  /\ HasFork(nodes)
  /\ ALen(nodes) > TrunkSegments(config) + 1
  /\ Len(attractors) > 0

ThickEps == 1

ThicknessOrdered(ns) ==
  \A i \in DOMAIN ns \ {0} :
    ns[i].thickness <= ns[ns[i].parentIndex].thickness + ThickEps

RootAtBase(ns) ==
  (\E i \in DOMAIN ns : ns[i].thickness # 0)
    => Abs(ns[0].thickness - config.trunkBaseRadius) <= ThickEps

ThicknessValid(ns) == ThicknessOrdered(ns) /\ RootAtBase(ns)

\* C3: after _computeThickness no node is thicker than its parent (up to
\* ThickEps), and the root's thickness is config.trunkBaseRadius (up to
\* ThickEps) whenever some node has a nonzero thickness.
C3_ThicknessMonotone == Returned(ThicknessValid)

C3_Witness ==
  /\ pc = "return"
  /\ \E i \in DOMAIN nodes \ {0} :
       /\ nodes[nodes[i].parentIndex].childCount > 1
       /\ nodes[i].thickness < nodes[nodes[i].parentIndex].thickness
       /\ nodes[i].childCount > 0

\* The places <<s, k>> of the segments.
Places(segs) ==
  UNION { { <<s, k>> : k \in 1..Len(segs[s]) } : s \in 1..Len(segs) }

\* How often node i is counted: a fork node does not count where it is the
\* first element of a segment.
Counted(segs, ch, i) ==
  Cardinality({ pl \in Places(segs) :
                  /\ segs[pl[1]][pl[2]] = i
                  /\ ~(pl[2] = 1 /\ IsFork(ch, i)) })

\* C4 as claimed: the segments count every node index exactly once.
C4_EveryNodeOnce ==
  segments.cached =>
    \A i \in DOMAIN skNodes : Counted(segments.value, children, i) = 1

\* C4 as amended: the segments count every node index exactly once, except
\* the root when no segment ends at it: a root that is a fork, or that is the
\* graph's only node, is counted nowhere.
RootUncounted(ns, ch) == IsFork(ch, 0) \/ ALen(ns) = 1

C4_EveryNodeOnceButRoot ==
  segments.cached =>
    \A i \in DOMAIN skNodes :
      Counted(segments.value, children, i) =
        IF i = 0 /\ RootUncounted(skNodes, children) THEN 0 ELSE 1

\* A lone root has been segmented (into no segment at all).
C4_LoneRoot == segments.cached /\ ALen(skNodes) = 1 /\ segResult = << >>

C4_Witness ==
  /\ segments.cached
  /\ segResult = segments.value
  /\ IsFork(children, 0)
  /\ \E i \in DOMAIN skNodes \ {0} : IsFork(children, i)

EndingAt(segs, f) == { s \in 1..Len(segs) : segs[s][Len(segs[s])] = f }

StartingAt(segs, f, c) ==
  { s \in 1..Len(segs) : Len(segs[s]) >= 2 /\ segs[s][1] = f /\ segs[s][2] = c }

ChildSegmentsStartAtFork(segs, ch, f) ==
  \A k \in 1..Len(ch[f]) : Cardinality(StartingAt(segs, f, ch[f][k])) = 1

\* C5 as claimed: every fork node, the root included, ends exactly one
\* segment and starts exactly one segment per child.
C5_ForkEndsOneSegment ==
  segments.cached =>
    \A f \in DOMAIN skNodes :
      IsFork(children, f) =>
        /\ Cardinality(EndingAt(segments.value, f)) = 1
        /\ ChildSegmentsStartAtFork(segments.value, children, f)

\* C5 as amended: every fork node other than the root ends exactly one
\* segment, a root that is a fork ends none, and every fork node, the root
\* included, starts exactly one segment per child, with that child second.
C5_NonRootForkEndsOneSegment ==
  segments.cached =>
    \A f \in DOMAIN skNodes :
      IsFork(children, f) =>
        /\ Cardinality(EndingAt(segments.value, f)) = IF f = 0 THEN 0 ELSE 1
        /\ ChildSegmentsStartAtFork(segments.value, children, f)

C5_Witness ==
  /\ segments.cached
  /\ IsFork(children, 0)
  /\ \E f \in DOMAIN skNodes \ {0} :
       IsFork(children, f) /\ Cardinality(EndingAt(segments.value, f)) = 1

TrunkChain(ns) ==
  LET n == ALen(ns)
  IN /\ n >= 1
     /\ (n - 1) * config.segmentLength >= config.trunkHeight
     /\ (n - 2) * config.segmentLength < config.trunkHeight
     /\ \A i \in DOMAIN ns :
          /\ ns[i].depth = i
          /\ ns[i].parentIndex = IF i = 0 THEN -1 ELSE i - 1

\* C10: with attractorCount = 0 the returned graph is the trunk chain of
\* ceil(trunkHeight / segmentLength) + 1 nodes, node i at depth i with parent
\* i - 1 and node 0 without parent.
C10_TrunkOnly == config.attractorCount = 0 => Returned(TrunkChain)

C10_Witness ==
  /\ config.attractorCount = 0
  /\ generations >= 1
  /\ config.trunkHeight % config.segmentLength # 0
  /\ ALen(skNodes) = 4


\* ------------------------------------------------------------------------
\* Parallel transport frames
\* ------------------------------------------------------------------------

\* A length of one, within the tolerance: the square within FrameEps / FP.
UnitLength(v) == Abs(VLenSq(v) - FP * FP) <= FrameEps * FP

\* Two vectors at a right angle, within the tolerance.
Orthogonal(a, b) == Abs(VDot(a, b)) <= FrameEps * FP

\* The largest component of d, in absolute value.
MaxAbs(d) == Max(Abs(d.x), Max(Abs(d.y), Abs(d.z)))

\* T is the direction of d at unit length: parallel to d, pointing the same
\* way, of length one.  The direction of the zero vector is what normalize()
\* gives for it, the zero vector.
DirectionOf(T, d) ==
  IF d = VZero THEN T = VZero
  ELSE /\ UnitLength(T)
       /\ VDot(T, d) > 0
       /\ MaxAbs(Cross(T, d)) <= 2 * MaxAbs(d)

\* C6: for n >= 2 points the call returns exactly n frames; the tangent of
\* frame i, i < n - 1, is the normalized direction from point i to point
\* i + 1; the frame of the final point is a copy of frame n - 2.
C6_FramesFollowPoints ==
  /\ fpc = "threw" => Len(points) < 2
  /\ fpc = "return" =>
       /\ Len(points) >= 2
       /\ Len(frames) = Len(points)
       /\ \A i \in 1..(Len(points) - 1) :
            DirectionOf(frames[i].T, VSub(points[i + 1], points[i]))
       /\ frames[Len(points)] = frames[Len(points) - 1]

\* Frames were returned for a path that bends, reverses and stands still.
C6_Witness ==
  /\ fpc = "return"
  /\ Len(points) = MaxPoints
  /\ \E i \in 1..(Len(points) - 1) : points[i + 1] = points[i]
  /\ \E i \in 1..(Len(points) - 2) :
       /\ points[i + 1] # points[i]
       /\ points[i + 2] # points[i + 1]
       /\ frames[i + 1].T # frames[i].T

Orthonormal(f) ==
  /\ UnitLength(f.T) /\ UnitLength(f.N) /\ UnitLength(f.B)
  /\ Orthogonal(f.T, f.N) /\ Orthogonal(f.T, f.B) /\ Orthogonal(f.N, f.B)

\* C7: for every sequence of at least 2 points, consecutive identical points
\* and reversed tangents included, every frame returned has T, N and B
\* pairwise orthogonal and of unit length.
C7_FramesOrthonormal ==
  fpc = "return" => \A i \in 1..Len(frames) : Orthonormal(frames[i])

\* No two consecutive points of the argument are the same point.
DistinctNeighbours(pts) == \A i \in 1..(Len(pts) - 1) : pts[i + 1] # pts[i]

\* The frames of a path without a standing step are orthonormal, a path
\* that reverses included.
FramesOrthonormalOnMovingPath ==
  fpc = "return" /\ DistinctNeighbours(points) =>
    \A i \in 1..Len(frames) : Orthonormal(frames[i])

\* A frame after a standing step has lost its normal and binormal for good.
FramesCollapsed ==
  /\ fpc = "return"
  /\ \E i \in 2..(Len(points) - 2) :
       /\ points[i + 1] = points[i]
       /\ points[i + 2] # points[i + 1]
       /\ frames[i + 1].N = VZero
       /\ frames[i + 1].B = VZero


\* ------------------------------------------------------------------------
\* Reproducible generation, segment buffers, degenerate configurations
\* ------------------------------------------------------------------------

\* C2: for a fixed seed and config, two independent generations, each a
\* generate() followed by the build() of a freshly constructed TrunkMesh,
\* produce the same node graph and the same mesh buffers.
C2_Reproducible ==
  /\ pc = "idle" /\ generations >= 1 => skNodes = firstGraph
  /\ builds = 1 /\ firstMesh.set =>
       /\ geometry = firstMesh.value
       /\ burls = firstMesh.burls
       /\ junctions = firstMesh.junctions

\* The second generation's fresh TrunkMesh has built a forked tree drawn
\* from all four generators; the mesh it is compared with is the first
\* generation's.
C2_Witness ==
  /\ generations = 2 /\ firstMesh.set /\ firstMesh.generation = 1
  /\ builds = 1 /\ geometry.merged
  /\ Len(attractors) > 0
  /\ HasFork(skNodes)
  /\ Len(burls) > 0
  /\ \E k \in DOMAIN geometry.parts : geometry.parts[k].kind = "stub"

\* The vertices ring i of a segment geometry pushed.
RingVertices(g, i) == { k \in DOMAIN g.vertices : g.vertices[k][1] = i }

BuffersValid(g) ==
  /\ \A i \in 0..(g.rings - 1) :
       Cardinality(RingVertices(g, i)) = g.radialSegments + 1
  /\ Len(g.indices) % 3 = 0
  /\ \A k \in DOMAIN g.indices :
       g.indices[k] >= 0 /\ g.indices[k] < Len(g.vertices)

\* C8: in every geometry _buildSegmentGeometry builds each sample ring has
\* radialSegments + 1 vertices, the index count is a multiple of 3, and
\* every index, of the ring quads and of the tip-cap fan, is smaller than
\* the number of vertices.
C8_SegmentBuffersValid ==
  \A k \in DOMAIN geometry.parts :
    geometry.parts[k].kind = "segment" => BuffersValid(geometry.parts[k])

\* A built segment with a tip cap, more than one quad row and a seam.
C8_Witness ==
  \E k \in DOMAIN geometry.parts :
    /\ geometry.parts[k].kind = "segment"
    /\ geometry.parts[k].rings >= 3
    /\ geometry.parts[k].radialSegments >= 2
    /\ geometry.parts[k].vertices[Len(geometry.parts[k].vertices)] = TipVertex
    /\ Len(geometry.parts[k].indices) > 0

Degenerate(c) ==
  \/ c.crownRadiusX <= 0 \/ c.crownRadiusY <= 0 \/ c.crownRadiusZ <= 0
  \/ c.segmentLength <= 0
  \/ c.pipeExponent <= 0
  \/ c.trunkRadialSegments = 0 \/ c.primaryRadialSegments = 0
  \/ c.secondaryRadialSegments = 0 \/ c.tertiaryRadialSegments = 0

\* C9: a configuration with a non-positive crown radius, a non-positive
\* segmentLength, pipeExponent <= 0 or zero radial segments is rejected
\* before growth begins: no node graph and no mesh is returned for it.
C9_DegenerateRejected ==
  Degenerate(config) => generations = 0 /\ ~geometry.merged

\* A mesh was merged for a configuration with zero radial segments.
DegenerateMeshReturned ==
  /\ config.trunkRadialSegments = 0
  /\ geometry.merged

\* A node graph was returned for a configuration with a negative crown radius.
DegenerateGraphReturned ==
  /\ config.crownRadiusX < 0
  /\ generations >= 1 /\ ALen(skNodes) > 1


\* ------------------------------------------------------------------------
\* The pipe model before the rescale
\* ------------------------------------------------------------------------

\* The nodes whose parent is node i.
Kids(ns, i) == { j \in DOMAIN ns : ns[j].parentIndex = i }

\* The sum of thickness^p over a set of nodes.
RECURSIVE SumOfPowers(_, _, _)
SumOfPowers(ns, set, p) ==
  IF set = {} THEN 0
  ELSE LET j == CHOOSE k \in set : TRUE
       IN IPow(ns[j].thickness, p) + SumOfPowers(ns, set \ {j}, p)

\* t is the p-th root of s, rounded down.
IsRootOf(t, s, p) == IPow(t, p) <= s /\ s < IPow(t + 1, p)

PipeModel(ns, p) ==
  \A i \in DOMAIN ns :
    IF Kids(ns, i) = {} THEN ns[i].thickness = FP
    ELSE IsRootOf(ns[i].thickness, SumOfPowers(ns, Kids(ns, i), p), p)

\* C11: before the final rescale every terminal node has thickness 1 and
\* every internal node the p-th root of the sum of its children's
\* thicknesses to the p-th power, the children's final values: a node with
\* two terminal children and p = 2 has sqrt(2).
C11_PipeModel == pc = "rescale" => PipeModel(nodes, config.pipeExponent)

\* A node with two children, both terminal, under p = 2, has sqrt(2); and
\* some node with an internal child has been computed from it.
C11_Witness ==
  /\ pc = "rescale"
  /\ config.pipeExponent = 2
  /\ \E i \in DOMAIN nodes :
       /\ Cardinality(Kids(nodes, i)) = 2
       /\ \A j \in Kids(nodes, i) : Kids(nodes, j) = {}
       /\ nodes[i].thickness = ISqrt(2 * FP * FP)
       /\ nodes[i].thickness > FP
  /\ \E i \in DOMAIN nodes : \E j \in Kids(nodes, i) : nodes[j].thickness > FP


\* ------------------------------------------------------------------------
\* The cross-section at the tip
\* ------------------------------------------------------------------------

\* The distance of the returned radius from baseRadius.
Deviation == Abs(cs.r - cs.baseRadius)

\* C12: called at h = 1, getCrossSectionRadius returns baseRadius with a
\* deviation below a small epsilon (a hundredth of baseRadius here), for
\* every angle and every noise function with values in [-1, 1].
C12_TipIsRound ==
  cs.pc = "return" /\ cs.h = FP => 100 * Deviation <= cs.baseRadius

\* C12 as amended: at h = 1 the falloff is 0.3, and the deviation is at most
\* 0.3 * (0.08 + 0.05 + 0.03 + 0.02) = 5.4 % of baseRadius (one unit of
\* rounding for each harmonic aside).
C12_TipWithinFalloff ==
  cs.pc = "return" /\ cs.h = FP =>
    1000 * (Deviation - Len(HarmonicOrder)) <= 54 * cs.baseRadius

\* At the tip all four harmonics at their full amplitude have added up.
C12_Witness ==
  /\ cs.pc = "return" /\ cs.h = FP
  /\ cs.baseRadius = 1000
  /\ 1000 * Deviation >= 50 * cs.baseRadius


\* ------------------------------------------------------------------------
\* Burl spacing
\* ------------------------------------------------------------------------

\* Twice the largest crown radius.
CrownDiameter(c) == 2 * Max(c.crownRadiusX, Max(c.crownRadiusY, c.crownRadiusZ))

\* The nodes _generateBurls places burls at.
BurlCandidates(c, ns) ==
  { i \in DOMAIN ns : /\ 20 * ns[i].thickness > 3 * c.trunkBaseRadius
                      /\ ~ns[i].position.nan
                      /\ ns[i].position.y > FP }

\* An upper bound of the distance of two burls placed at nodes i and j: the
\* nodes' distance and the offset of each burl, 0.8 of the node's thickness.
FarthestApart(ns, i, j) ==
  ISqrt(DistSq(ns[i].position, ns[j].position)) + 1
    + CeilDiv(4 * (ns[i].thickness + ns[j].thickness), 5)

\* burlMinSpacing is larger than any distance between two burls.
SpacingExceedsTree(c, ns) ==
  \A i, j \in BurlCandidates(c, ns) : FarthestApart(ns, i, j) < c.burlMinSpacing

\* C13: if burlMinSpacing is larger than the crown diameter, twice the
\* largest crown radius, then _generateBurls accepts at most 1 burl.
C13_AtMostOneBurl ==
  builds >= 1 /\ config.burlMinSpacing > CrownDiameter(config) => Len(burls) <= 1

\* C13 as amended: if burlMinSpacing is larger than the distance of every
\* two candidate nodes plus 0.8 of their two thicknesses, then _generateBurls
\* accepts at most 1 burl.
C13_AtMostOneBurlInReach ==
  builds >= 1 /\ SpacingExceedsTree(config, skNodes) => Len(burls) <= 1

\* One burl was accepted, of the two requested, with several candidate nodes
\* and every later attempt rejected for its distance.
C13_Witness ==
  /\ builds >= 1
  /\ SpacingExceedsTree(config, skNodes)
  /\ Cardinality(BurlCandidates(config, skNodes)) >= 2
  /\ config.burlCount = 2
  /\ Len(burls) = 1

\* ------------------------------------------------------------------------
\* Termination of generate()
\* ------------------------------------------------------------------------

PositiveCrownAndSegment(c) ==
  /\ c.crownRadiusX > 0 /\ c.crownRadiusY > 0 /\ c.crownRadiusZ > 0
  /\ c.segmentLength > 0

\* The growth loop runs at most maxIterations iterations, and a graph
\* returned is valid, attractors left or not.
GrowthBounded ==
  /\ iter <= Max(config.maxIterations, 0)
  /\ pc = "return" => GraphValid(nodes)

\* With no attractor left the loop is left at once: nothing is grown and no
\* iteration is counted.
LeavesWhenExhausted ==
  pc = "grow" /\ Len(attractors) = 0
    => pc' = "thickness" /\ nodes' = nodes /\ iter' = iter

\* C14: for every configuration with positive crown radii and a positive
\* segmentLength generate() terminates: the growth loop runs at most
\* maxIterations iterations, is left as soon as no attractor remains, and
\* generate() returns a valid graph even when attractors are left.
C14_GenerateTerminates ==
  /\ [](PositiveCrownAndSegment(config) => GrowthBounded)
  /\ [][PositiveCrownAndSegment(config) => LeavesWhenExhausted]_vars
  /\ (PositiveCrownAndSegment(config) /\ pc = "attractors") ~> (pc = "return")

\* C14 as amended: the same, for the configurations whose trunkHeight is not
\* negative as well.
C14_GenerateTerminatesWithTrunk ==
  /\ [](PositiveCrownAndSegment(config) /\ config.trunkHeight >= 0
         => GrowthBounded)
  /\ [][PositiveCrownAndSegment(config) /\ config.trunkHeight >= 0
         => LeavesWhenExhausted]_vars
  /\ (PositiveCrownAndSegment(config) /\ config.trunkHeight >= 0
         /\ pc = "attractors") ~> (pc = "return")

\* generate() has returned a graph after maxIterations iterations, with
\* attractors left that no node came near.
C14_Witness ==
  /\ PositiveCrownAndSegment(config) /\ config.trunkHeight >= 0
  /\ pc = "return"
  /\ iter = config.maxIterations
  /\ Len(attractors) > 0
  /\ ALen(nodes) > TrunkSegments(config) + 1

\* ------------------------------------------------------------------------
\* The segment cache
\* ------------------------------------------------------------------------

\* ch[p] lists the nodes whose parentIndex is p, each once, in increasing
\* order.
ChildrenMatch(ns, ch) ==
  /\ DOMAIN ch = DOMAIN ns
  /\ \A p \in DOMAIN ns :
       /\ \A k \in 1..Len(ch[p]) :
            ch[p][k] \in DOMAIN ns /\ ns[ch[p][k]].parentIndex = p
       /\ \A i \in DOMAIN ns :
            ns[i].parentIndex = p => \E k \in 1..Len(ch[p]) : ch[p][k] = i
       /\ \A k \in 1..(Len(ch[p]) - 1) : ch[p][k] < ch[p][k + 1]

\* The skeleton's derived data belong to the graph it holds.
DerivedDataCurrent ==
  /\ generations >= 1 => ChildrenMatch(skNodes, children)
  /\ segments.cached => segments.value = BranchSegments(BuildChildren(skNodes))

\* A getBranchSegments() call returns the segmentation of the graph held,
\* and what the cache holds when it holds something.
CallReturnsCurrent ==
  GetBranchSegments =>
    /\ segResult' = BranchSegments(BuildChildren(skNodes))
    /\ segments.cached => segResult' = segments.value /\ segments' = segments

\* generate() leaves no cached segmentation behind.
GenerateInvalidates ==
  generations' # generations => ~segments'.cached

\* C15: getBranchSegments() returns the segmentation of the graph of the
\* most recent generate(), never one cached for an earlier graph; the
\* children lists match the parentIndex values of the current nodes; and a
\* second getBranchSegments() with no generate() in between returns the
\* same segments.
C15_SegmentsCurrent ==
  /\ []DerivedDataCurrent
  /\ [][CallReturnsCurrent]_vars
  /\ [][GenerateInvalidates]_vars

\* After a second generate() the segmentation was computed again and
\* returned, for a graph with a fork.
C15_Witness ==
  /\ generations = 2
  /\ segments.cached
  /\ segResult = segments.value
  /\ Len(segResult) >= 3
  /\ HasFork(skNodes)

\* ------------------------------------------------------------------------
\* Too few points
\* ------------------------------------------------------------------------

\* C16: computeParallelTransportFrames called with 0 or 1 points throws and
\* returns no frames.
C16_TooFewPointsThrows ==
  Len(points) < 2 /\ fpc # "call" => fpc = "threw" /\ frames = << >>

\* The call with one point has thrown.
C16_Witness ==
  /\ Len(points) = 1
  /\ fpc = "threw"
  /\ frames = << >>

\* ------------------------------------------------------------------------
\* A tangent that does not change
\* ------------------------------------------------------------------------

\* a and b are the same vector, up to the rounding of the two normalizations
\* between them: one unit of the last place each.
Near(a, b) == ~a.nan /\ ~b.nan /\ MaxAbs(VSub(a, b)) <= 2

SameFrame(f, g) == f.T = g.T /\ Near(f.N, g.N) /\ Near(f.B, g.B)

\* The tangents at points k and k + 1 (1-based) are equal.
TangentRepeats(pts, k) ==
  k + 2 <= Len(pts) /\ Tangent(pts, k - 1) = Tangent(pts, k)

\* C17: whenever two consecutive tangents are equal, no rotation is applied
\* and the frame at the second point equals the frame at the first: the
\* same T, N and B.
C17_SameTangentSameFrame ==
  \A k \in 1..(Len(frames) - 1) :
    TangentRepeats(points, k) =>
      /\ Transported(frames[k].N, frames[k].T, Tangent(points, k)) = frames[k].N
      /\ SameFrame(frames[k], frames[k + 1])

\* Frames were returned for three points in a line, after a bend: the
\* tangent repeats at a frame the loop computed, for a tangent along no
\* axis.
C17_Witness ==
  /\ fpc = "return"
  /\ \E k \in 2..(Len(frames) - 1) :
       /\ TangentRepeats(points, k)
       /\ frames[k].T # frames[k - 1].T
       /\ frames[k].T # VZero
       /\ frames[k].N # VZero
       /\ frames[k + 1].N # VZero

\* ------------------------------------------------------------------------
\* One growth iteration: the attractors
\* ------------------------------------------------------------------------

\* The nodes an attractor's distance to is a number.
Measurable(ns) == { i \in DOMAIN ns : ~ns[i].position.nan }

\* The square of the least distance from attr to a node of ns.
NearestDsq(attr, ns) ==
  CHOOSE d \in { DistSq(attr, ns[i].position) : i \in Measurable(ns) } :
    \A i \in Measurable(ns) : d <= DistSq(attr, ns[i].position)

\* The lowest index of a node at the least distance.
NearestIdx(attr, ns) ==
  CHOOSE i \in Measurable(ns) :
    /\ DistSq(attr, ns[i].position) = NearestDsq(attr, ns)
    /\ \A j \in Measurable(ns) :
         DistSq(attr, ns[j].position) = NearestDsq(attr, ns) => i <= j

\* The nearest distance is < limit (with no measurable node it is Infinity).
Within(attr, ns, limit) ==
  /\ Measurable(ns) # {}
  /\ limit > 0
  /\ NearestDsq(attr, ns) < limit * limit

\* The attractors, by index, the iteration removes and those that contribute.
Consumed(c, ns, attrs) ==
  { a \in 1..Len(attrs) : Within(attrs[a], ns, c.killDistance) }

Contributing(c, ns, attrs) ==
  { a \in 1..Len(attrs) \ Consumed(c, ns, attrs) :
      Within(attrs[a], ns, c.influenceRadius) }

\* The k-th index of 1..n that is not in gone.
KthKept(n, gone, k) ==
  CHOOSE a \in 1..n \ gone : Cardinality({ b \in 1..a : b \notin gone }) = k

\* attrs without the attractors whose index is in gone, in order.
Remaining(attrs, gone) ==
  [k \in 1..(Len(attrs) - Cardinality(gone)) |->
     attrs[KthKept(Len(attrs), gone, k)]]

\* infl holds, for each node j, the directions of the contributing
\* attractors nearest to j, one each, and nothing else.
Recorded(c, ns, attrs, infl) ==
  \A j \in DOMAIN ns :
    LET from == { a \in Contributing(c, ns, attrs) : NearestIdx(attrs[a], ns) = j }
        at   == { k \in 1..Len(infl) : infl[k].node = j }
    IN /\ from = {} => at = {}
       /\ from # {} =>
            /\ Cardinality(at) = 1
            /\ \A k \in at :
                 /\ Len(infl[k].directions) = Cardinality(from)
                 /\ \A a \in from : \E d \in 1..Len(infl[k].directions) :
                      infl[k].directions[d] =
                        Normalize(VSub(attrs[a], ns[j].position))
                 /\ \A d \in 1..Len(infl[k].directions) : \E a \in from :
                      infl[k].directions[d] =
                        Normalize(VSub(attrs[a], ns[j].position))

\* A step that is one iteration of the growth loop.
GrowStep == pc = "grow" /\ iter' = iter + 1

\* C18: in each growth iteration, with the nearest node taken among the
\* nodes at the start of the iteration, an attractor nearer than
\* killDistance is removed and contributes nothing; any other attractor
\* nearer than influenceRadius stays and contributes one direction to its
\* nearest node, the lowest index on a tie; any other stays and contributes
\* nothing.  No attractor is added during growth.
C18_AttractorsPerIteration ==
  /\ [][GrowStep =>
          /\ attractors' = Remaining(attractors, Consumed(config, nodes, attractors))
          /\ Recorded(config, nodes, attractors, nodeInfluences')
          /\ \A k \in 1..Len(nodeInfluences') :
               nodeInfluences'[k].node \in DOMAIN nodes]_vars
  /\ [][pc = "grow" /\ ~GrowStep => attractors' = attractors]_vars

\* An iteration has run in which an attractor gave a node its direction and
\* another stayed without contributing, after an attractor had been removed.
C18_Witness ==
  /\ pc = "grow"
  /\ iter >= 1
  /\ Len(attractors) < config.attractorCount
  /\ Len(nodeInfluences) = 1
  /\ Len(attractors) > Len(nodeInfluences[1].directions)

\* ------------------------------------------------------------------------
\* One growth iteration: the new nodes
\* ------------------------------------------------------------------------

\* The nodes that received a direction.
InfluencedNodes(infl) == { infl[k].node : k \in 1..Len(infl) }

\* The rounding of a scaled direction, in position units.
StepEps == 1

\* a lies at distance len from b: the direction is a unit vector within
\* FrameEps / FP (as UnitLength), and its product with len is rounded by at
\* most StepEps.
AtDistance(a, b, len) ==
  LET l == Abs(len)
  IN /\ ~a.nan /\ ~b.nan
     /\ Abs(DistSq(a, b) - l * l) * FP
          <= FrameEps * l * l + (2 * l + StepEps) * StepEps * FP

\* after is before with one node appended for each node of influenced: the
\* old nodes are kept, but for the child count of the influenced ones.
Grown(c, before, after, influenced) ==
  LET n   == ALen(before)
      new == { j \in DOMAIN after : j >= n }
  IN /\ ALen(after) = n + Cardinality(influenced)
     /\ influenced \subseteq DOMAIN before
     /\ \A i \in DOMAIN before :
          /\ after[i].position = before[i].position
          /\ after[i].parentIndex = before[i].parentIndex
          /\ after[i].depth = before[i].depth
          /\ after[i].childCount =
               before[i].childCount + (IF i \in influenced THEN 1 ELSE 0)
     /\ \A p \in influenced :
          Cardinality({ j \in new : after[j].parentIndex = p }) = 1
     /\ \A j \in new :
          /\ after[j].parentIndex \in influenced
          /\ after[j].depth = before[after[j].parentIndex].depth + 1
          /\ AtDistance(after[j].position,
                        before[after[j].parentIndex].position, c.segmentLength)

\* C19: each growth iteration appends exactly one node for each node that
\* received a direction and none for any other; the new node's parentIndex
\* is that node, which existed when the iteration began, its depth is the
\* parent's depth + 1, and it lies at distance segmentLength from its parent.
C19_OneNodePerInfluencedNode ==
  [][GrowStep =>
       Grown(config, nodes, nodes', InfluencedNodes(nodeInfluences'))]_vars

\* An iteration has grown a node from each of two nodes, one of them a node
\* that an earlier iteration grew, and none from the others.
C19_Witness ==
  /\ pc = "grow"
  /\ iter >= 2
  /\ Len(nodeInfluences) = 2
  /\ ALen(nodes) >= TrunkSegments(config) + 4
  /\ \E k \in 1..2 : nodeInfluences[k].node > TrunkSegments(config)
  /\ \A k \in 1..2 :
       nodes[ALen(nodes) - 3 + k].parentIndex = nodeInfluences[k].node

\* ------------------------------------------------------------------------
\* Stagnation
\* ------------------------------------------------------------------------

\* The last iteration recorded no direction for any node, and attractors
\* are left: the loop's own exit (no attractor left) does not apply.
Stagnated ==
  /\ pc = "grow"
  /\ iter >= 1
  /\ Len(nodeInfluences) = 0
  /\ Len(attractors) > 0

\* C20: once an iteration has left every node without influence, the growth
\* loop runs no further iteration.
C20_StagnationEndsGrowth == [][Stagnated => ~GrowStep]_vars

\* ------------------------------------------------------------------------
\* The trunk chain
\* ------------------------------------------------------------------------

\* _seedTrunk has run in this generate and the trunk it laid is in nodes.
TrunkSeeded ==
  /\ pc \in {"grow", "thickness", "rescale", "return"}
  /\ config.trunkHeight > 0
  /\ config.segmentLength > 0

\* The height gained from trunk node i - 1 to trunk node i.
TrunkGap(i) == nodes[i].position.y - nodes[i - 1].position.y

\* The trunk is a vertical chain from y = 0 to y = trunkHeight, each node the
\* child of the one below.
TrunkColumn ==
  LET n == TrunkSegments(config)
  IN /\ ALen(nodes) >= n + 1
     /\ nodes[0].position = Vec(0, 0, 0)
     /\ nodes[0].parentIndex = -1
     /\ nodes[n].position = Vec(0, config.trunkHeight, 0)
     /\ \A i \in 1..n :
          /\ nodes[i].parentIndex = i - 1
          /\ nodes[i].position.x = 0 /\ nodes[i].position.z = 0

\* C21: consecutive trunk nodes are segmentLength apart from y = 0 up, but
\* for the last segment, which may be shorter, and the top is at trunkHeight.
C21_TrunkSpacedBySegmentLength ==
  TrunkSeeded =>
    /\ TrunkColumn
    /\ \A i \in 1..TrunkSegments(config) :
         IF i < TrunkSegments(config)
         THEN Abs(TrunkGap(i) - config.segmentLength) <= StepEps
         ELSE TrunkGap(i) > 0 /\ TrunkGap(i) <= config.segmentLength + StepEps

\* C21 as amended: the trunk nodes are evenly spaced, all segments of length
\* trunkHeight / ceil(trunkHeight / segmentLength) up to the rounding of a
\* position, which is at most segmentLength, and the top is at trunkHeight.
C21_TrunkEvenlySpaced ==
  TrunkSeeded =>
    /\ TrunkColumn
    /\ \A i \in 1..TrunkSegments(config) :
         /\ TrunkGap(i) > 0
         /\ TrunkGap(i) <= config.segmentLength
         /\ Abs(TrunkGap(i) * TrunkSegments(config) - config.trunkHeight)
              <= StepEps * TrunkSegments(config)

\* A trunk whose height is no multiple of the segment length has been laid,
\* in segments shorter than segmentLength.
C21_Witness ==
  /\ TrunkSeeded
  /\ pc = "return"
  /\ config.trunkHeight % config.segmentLength # 0
  /\ TrunkSegments(config) >= 3
  /\ TrunkGap(1) < config.segmentLength

\* ------------------------------------------------------------------------
\* The node list during growth
\* ------------------------------------------------------------------------

\* Every index of before denotes the same node in after.
SameNodes(before, after) ==
  /\ DOMAIN before \subseteq DOMAIN after
  /\ \A i \in DOMAIN before :
       /\ after[i].position = before[i].position
       /\ after[i].parentIndex = before[i].parentIndex
       /\ after[i].depth = before[i].depth

\* C22: a step of the growth loop removes and reorders no node and leaves
\* the position, parentIndex and depth of every existing node as they were.
C22_NodesAppendOnly == [][pc = "grow" => SameNodes(nodes, nodes')]_vars

\* Two iterations have each appended a node above the trunk.
C22_Witness ==
  /\ pc = "grow"
  /\ iter >= 2
  /\ ALen(nodes) >= TrunkSegments(config) + 3
  /\ nodes[ALen(nodes) - 1].depth >= 2
  /\ nodes[ALen(nodes) - 1].parentIndex > TrunkSegments(config)

\* ------------------------------------------------------------------------
\* Child counts
\* ------------------------------------------------------------------------

Elements(s) == { s[k] : k \in 1..Len(s) }

\* The nodes of ns whose parentIndex is p.
ChildrenByParent(ns, p) == { j \in DOMAIN ns : ns[j].parentIndex = p }

\* Each childCount is the number of nodes naming the node as their parent.
ChildCountsExact(ns) ==
  \A i \in DOMAIN ns : ns[i].childCount = Cardinality(ChildrenByParent(ns, i))

\* C23: in every graph generate() returns each childCount is the number of
\* nodes whose parentIndex is the node; in the skeleton the nodes with
\* childCount 0 are getTerminalNodes() and those with childCount > 1 are
\* getForkNodes().
C23_ChildCountMatches ==
  /\ Returned(ChildCountsExact)
  /\ pc \in {"thickness", "rescale"} => ChildCountsExact(nodes)
  /\ generations >= 1 =>
       /\ Elements(GetTerminalNodes(children, 0))
            = { i \in DOMAIN skNodes : skNodes[i].childCount = 0 }
       /\ Elements(GetForkNodes(children, 0))
            = { i \in DOMAIN skNodes : skNodes[i].childCount > 1 }

\* The skeleton holds a graph with a fork, a chain node and two terminals, one
\* of them the top of the trunk.
C23_Witness ==
  /\ generations >= 1
  /\ Len(GetForkNodes(children, 0)) >= 1
  /\ Len(GetTerminalNodes(children, 0)) >= 2
  /\ skNodes[TrunkSegments(config)].childCount = 0
  /\ \E i \in DOMAIN skNodes : skNodes[i].childCount = 1

\* ------------------------------------------------------------------------
\* The shape of a branch segment
\* ------------------------------------------------------------------------

\* seg is an unbranched run of the graph ch: from the root or a fork, through
\* single-child nodes, to a fork or a terminal, each node a child of the one
\* before it.
UnbranchedRun(ns, ch, seg) ==
  /\ Len(seg) >= 2
  /\ \A k \in 1..Len(seg) : seg[k] \in DOMAIN ch
  /\ seg[1] = 0 \/ Len(ch[seg[1]]) > 1
  /\ Len(ch[seg[Len(seg)]]) # 1
  /\ \A k \in 2..(Len(seg) - 1) : Len(ch[seg[k]]) = 1
  /\ \A k \in 2..Len(seg) :
       /\ seg[k] \in Elements(ch[seg[k - 1]])
       /\ ns[seg[k]].parentIndex = seg[k - 1]

\* C24: every segment getBranchSegments() returns has at least 2 indices,
\* starts at the root or a fork, ends at a fork or a terminal, has only
\* single-child nodes in between, and steps from parent to child.
C24_SegmentsAreUnbranchedRuns ==
  /\ segments.cached =>
       \A k \in 1..Len(segments.value) :
         UnbranchedRun(skNodes, children, segments.value[k])
  /\ (segments.cached /\ segResult = segments.value) =>
       \A k \in 1..Len(segResult) : UnbranchedRun(skNodes, children, segResult[k])

\* The segments returned include one from the root through a single-child
\* node to a fork, one that starts at a fork other than the root and one that
\* ends at a terminal.
C24_Witness ==
  /\ segments.cached
  /\ segResult = segments.value
  /\ \E k \in 1..Len(segResult) :
       /\ segResult[k][1] = 0
       /\ Len(segResult[k]) >= 3
       /\ Len(children[segResult[k][Len(segResult[k])]]) > 1
  /\ \E k \in 1..Len(segResult) :
       /\ segResult[k][1] # 0
       /\ Len(children[segResult[k][Len(segResult[k])]]) = 0

\* ------------------------------------------------------------------------
\* Which junctions add collar displacement
\* ------------------------------------------------------------------------

\* The junctions that added a term above 0 for the vertex.
Contributors(cl) ==
  { cl.terms[t].junction : t \in { u \in 1..Len(cl.terms) : cl.terms[u].term = "pos" } }

\* The thin-to-medium band of fork radii, that of _generateJunctionWelds.
InBand(radius) == ~WeldSkipped(radius)

\* C25: only forks whose parent radius is in the thin-to-medium band add
\* collar displacement to a vertex.
C25_CollarOnlyFromBand ==
  collar.called =>
    \A k \in Contributors(collar) : InBand(collar.junctions[k].parentRadius)

\* C25 as amended: only forks within 4 times their parent radius of the
\* vertex add collar displacement to it, and each of those with a child of
\* radius above 0 does, whatever its own radius.
C25_CollarOnlyFromNearForks ==
  collar.called =>
    /\ \A k \in Contributors(collar) :
         DistSq(collar.vertexPos, collar.junctions[k].point)
           <= 16 * collar.junctions[k].parentRadius * collar.junctions[k].parentRadius
    /\ \A k \in 1..Len(collar.junctions) :
         ( /\ ~collar.vertexPos.nan /\ ~collar.junctions[k].point.nan
           /\ DistSq(collar.vertexPos, collar.junctions[k].point)
                <= 16 * collar.junctions[k].parentRadius * collar.junctions[k].parentRadius
           /\ \E c \in 1..Len(collar.junctions[k].childDirections) :
                /\ collar.junctions[k].childDirections[c].radius > 0
                /\ ~collar.junctions[k].childDirections[c].dir.nan )
         => k \in Contributors(collar) \/ collar.collarDisp = "nan"
    /\ collar.moved <=> (Contributors(collar) # {} /\ collar.collarDisp # "nan")

\* A vertex has been moved by a fork outside the band while another fork,
\* farther than 4 times its radius, added nothing.
C25_Witness ==
  /\ collar.called
  /\ collar.moved
  /\ \E k \in Contributors(collar) : ~InBand(collar.junctions[k].parentRadius)
  /\ \E k \in 1..Len(collar.junctions) :
       /\ k \notin Contributors(collar)
       /\ collar.junctions[k].parentRadius > 0

\* ------------------------------------------------------------------------
\* Axial spacing by tier
\* ------------------------------------------------------------------------

\* The axial spacing of tier a is at most that of tier b.
SpacingAtMost(a, b) == a.spacingNum * b.spacingDen <= b.spacingNum * a.spacingDen

\* C26: of two average radii the larger gets an axial spacing at least as
\* large as the smaller one's.
C26_ThickerIsCoarser ==
  (tiers.pc = "return" /\ tiers.r1 > tiers.r2) => SpacingAtMost(tiers.t2, tiers.t1)

\* C26 as amended: with a trunk spacing that is at most the branch spacing,
\* as in TREE_CONFIG, the larger radius gets an axial spacing at most as
\* large as the smaller one's.
C26_ThickerIsFiner ==
  ( /\ tiers.pc = "return"
    /\ tiers.r1 > tiers.r2
    /\ 0 < config.trunkAxialSpacing
    /\ config.trunkAxialSpacing <= config.branchAxialSpacing )
  => SpacingAtMost(tiers.t1, tiers.t2)

\* A trunk radius and a twig radius under TREE_CONFIG's resolution: the trunk
\* is sampled at the smaller spacing.
C26_Witness ==
  /\ tiers.pc = "return"
  /\ tiers.r1 > tiers.r2
  /\ config.trunkAxialSpacing = 20 /\ config.branchAxialSpacing = 45
  /\ tiers.t1.radialSegments = config.trunkRadialSegments
  /\ tiers.t2.radialSegments = config.tertiaryRadialSegments
  /\ ~SpacingAtMost(tiers.t2, tiers.t1)

\* ------------------------------------------------------------------------
\* The burls of a build
\* ------------------------------------------------------------------------

\* The candidate nodes of _generateBurls on the skeleton built.
BurlNodes == ThickNodesAbove(config, skNodes, 0, 3, 20, FP)

\* The attempt loop of _generateBurls as it ended on the skeleton built.
BurlLoopEnd ==
  BurlAttempts(config, skNodes, BurlNodes, config.burlCount * 10,
               [attempt |-> 0, r |-> mulberry32(config.seed + 333), bs |-> << >>])

\* No two burls of bs are closer than minSpacing.
BurlsSpaced(bs, minSpacing) ==
  \A i \in 1..Len(bs) : \A j \in (i + 1)..Len(bs) :
    /\ ~bs[i].center.nan /\ ~bs[j].center.nan
    /\ DistSq(bs[i].center, bs[j].center) >= minSpacing * minSpacing

\* C27: a build leaves at most burlCount burls, any two of them at least
\* burlMinSpacing apart, after at most 10 * burlCount attempts; without a
\* candidate node every attempt is passed over, no burl is left and the
\* build goes on.
C27_BurlsBounded ==
  builds >= 1 =>
    /\ Len(burls) <= config.burlCount
    /\ BurlsSpaced(burls, config.burlMinSpacing)
    /\ BurlLoopEnd.bs = burls
    /\ BurlLoopEnd.attempt <= 10 * config.burlCount
    /\ Len(BurlNodes) = 0 =>
         (burls = << >> /\ BurlLoopEnd.attempt = 10 * config.burlCount)

\* A build has accepted two burls and turned at least one attempt down.
C27_Witness ==
  /\ builds >= 1
  /\ Len(burls) = 2
  /\ BurlLoopEnd.attempt >= 3
  /\ Len(BurlNodes) >= 2

\* ------------------------------------------------------------------------
\* Growth after an iteration that added no node
\* ------------------------------------------------------------------------

\* The last iteration of this run grew no node.
AddedNone ==
  /\ pc = "grow"
  /\ iter >= 1
  /\ Len(nodeInfluences) = 0

\* C28: once an iteration has added no node, no later step of the growth
\* loop adds a node, removes an attractor or draws from rng, and every later
\* iteration again records no influence: the graph handed to the thickness
\* pass is the one that iteration left.
C28_NoGrowthIsFixpoint ==
  [][AddedNone =>
       /\ nodes' = nodes
       /\ attractors' = attractors
       /\ rng' = rng
       /\ pc' = "grow" => AddedNone']_vars

\* Two iterations have added no node to the trunk, one of them having
\* removed an attractor, and attractors are left.
C28_Witness ==
  /\ AddedNone
  /\ iter >= 2
  /\ Len(attractors) >= 1
  /\ Len(attractors) < config.attractorCount
  /\ ALen(nodes) = TrunkSegments(config) + 1
  /\ ~nodes[0].position.nan

\* ------------------------------------------------------------------------
\* A second build() on the same TrunkMesh
\* ------------------------------------------------------------------------

\* C29: the second build() of a TrunkMesh returns what its first build()
\* returned, the same burls, junctions, per-segment draws and buffers, and
\* leaves the skeleton's nodes, adjacency and cached segments as they were.
C29_BuildRepeatable ==
  (builds = 2 /\ firstMesh.set) =>
    /\ burls = firstMesh.burls
    /\ junctions = firstMesh.junctions
    /\ geometry = firstMesh.value
    /\ skNodes = firstGraph
    /\ children = BuildChildren(skNodes)
    /\ segments.cached /\ segments.value = BranchSegments(children)

\* ------------------------------------------------------------------------
\* The raycaster while the overlay is open
\* ------------------------------------------------------------------------

\* C30: the fruit raycaster is never enabled while the portfolio overlay is
\* open.
C30_RaycasterOffWhileOpen == ~(listening /\ isOpen)

====
